---- MODULE Spec2Model ----
(***************************************************************************)
(* Ingestion-to-fanout pipeline of the bus intelligence backend:           *)
(*   - GtfsRealtimePoller.poll and its store pipeline (poller.py),         *)
(*   - the poll loops _poll_loop (backend) and run_poller (ingestion),     *)
(*   - the store reader get_all_vehicles (core/redis.py),                  *)
(*   - the per-client WebSocket handler (api/v1/ws.py).                    *)
(* Time is counted in seconds and only passes while the poll loop sleeps.  *)
(***************************************************************************)
EXTENDS Integers, Sequences, FiniteSets, TLC

\* ------------------------------------------------------------------ bounds
MaxFeed == 2        \* vehicle entities in one VehiclePositions body
MaxWrites == 2      \* poll ticks that write a snapshot (fleet:ts values)
MaxFails == 6       \* consecutive failed polls that are followed
WsMaxFails == 1     \* the same, in the runs with WebSocket clients
MaxPasses == 2      \* generation passes
MaxClock == 3       \* readings of datetime.now() by actions and health reports
OpsMaxClock == 2    \* the same, in the runs of the operations API alone
HealthMaxPasses == 1 \* generation passes in the runs with the health cache
MaxTarget == 2      \* an action request names one of the first MaxTarget active ids
MaxElapsed == 2     \* steps of time in the runs with the health cache

\* ------------------------------------------------------- program constants
POLL_INTERVAL == 15
GTFS_RT_INTERVAL == 10
MAX_BACKOFF == 300
VEHICLE_TTL == 120

\* ------------------------------------------------------------ value space
NoTrip == "None"        \* Python None for a vehicle without a trip field
NoField == 9999         \* a stop_time_update without arrival / departure
NoHash == [vehicle_id |-> "-", delay_seconds |-> -1]   \* HGETALL of a missing key: {}
NoTTL == -1             \* a key without expiry
NoTs == 0               \* GET fleet:ts before the first write: None

VehicleIds == {"", "V1", "V2"}
TripIds == {NoTrip, "T1"}

\* one entity of the VehiclePositions feed that has a vehicle field; V1 is the
\* vehicle that may run trip T1
VpEntities ==
    [vehicle_id : VehicleIds, trip_id : {NoTrip}] \cup {[vehicle_id |-> "V1", trip_id |-> "T1"]}

RECURSIVE SeqsUpTo(_, _)
SeqsUpTo(S, n) ==
    IF n = 0 THEN {<<>>}
    ELSE LET shorter == SeqsUpTo(S, n - 1)
         IN  shorter \cup {Append(s, x) : s \in {t \in shorter : Len(t) = n - 1}, x \in S}

VpBodies == SeqsUpTo(VpEntities, MaxFeed)

\* TripUpdates bodies: entities with a trip id and stop_time_update delays
TuBodies ==
    { <<>>,
      << [trip_id |-> "T1", stus |-> << [arrival |-> -40, departure |-> 25] >>] >>,
      << [trip_id |-> "T1", stus |-> << [arrival |-> 0, departure |-> NoField] >>] >>,
      << [trip_id |-> "", stus |-> << [arrival |-> 60, departure |-> NoField] >>] >> }

\* HTTP outcomes of one GET: a transport exception (gather returns the
\* exception object) or the status code of the response
TransportError == 0
VpOutcomes == {TransportError, 200, 429, 500}
TuOutcomes == {TransportError, 200, 204, 429, 500}

Abs(x) == IF x < 0 THEN -x ELSE x
Max(a, b) == IF a >= b THEN a ELSE b
Min(a, b) == IF a <= b THEN a ELSE b

\* ------------------------------------------------ poller.py: pure parsing

\* an inner loop that takes the signed delays
RECURSIVE MaxDelayNoAbs(_, _)
MaxDelayNoAbs(stus, acc) ==
    IF stus = <<>> THEN acc
    ELSE LET stu == Head(stus)
             a1 == IF stu.arrival # NoField THEN Max(acc, stu.arrival) ELSE acc
             a2 == IF stu.departure # NoField THEN Max(a1, stu.departure) ELSE a1
         IN  MaxDelayNoAbs(Tail(stus), a2)

\* _parse_trip_updates, inner loop: maximum |delay| over the stop time updates
RECURSIVE MaxDelayOf(_, _)
MaxDelayOf(stus, acc) ==
    IF stus = <<>> THEN acc
    ELSE LET stu == Head(stus)
             a1 == IF stu.arrival # NoField THEN Max(acc, Abs(stu.arrival)) ELSE acc
             a2 == IF stu.departure # NoField THEN Max(a1, Abs(stu.departure)) ELSE a1
         IN  MaxDelayOf(Tail(stus), a2)

\* _parse_trip_updates: the delay map as a set of <<trip_id, delay>> pairs, later
\* entities of the same trip overwriting earlier ones; empty data gives {}
RECURSIVE ParseTripUpdates(_, _)
ParseTripUpdates(data, map) ==
    IF data = <<>> THEN map
    ELSE LET tu == Head(data)
             d == MaxDelayOf(tu.stus, 0)
             next == IF tu.trip_id = "" \/ d <= 0 THEN map
                     ELSE {p \in map : p[1] # tu.trip_id} \cup {<<tu.trip_id, d>>}
         IN  ParseTripUpdates(Tail(data), next)

\* delay_map.get(trip_id, 0) if trip_id else 0
DelayGet(map, trip_id) ==
    IF trip_id = NoTrip \/ trip_id = "" THEN 0
    ELSE IF \E p \in map : p[1] = trip_id
         THEN (CHOOSE p \in map : p[1] = trip_id)[2]
         ELSE 0

\* _parse_vehicle_positions: one record per entity, in feed order
RECURSIVE ParseVehiclePositions(_, _)
ParseVehiclePositions(data, map) ==
    IF data = <<>> THEN <<>>
    ELSE <<[vehicle_id |-> Head(data).vehicle_id,
            trip_id |-> Head(data).trip_id,
            delay_seconds |-> DelayGet(map, Head(data).trip_id)]>>
         \o ParseVehiclePositions(Tail(data), map)

\* a TripUpdates branch that forgets the status checks
TuBytesAnyStatus(tu, body) == body

\* _fetch_feeds, TripUpdates branch: the body on 200, b"" on anything else
TuBytes(tu, body) == IF tu = 200 THEN body ELSE <<>>

\* a VehiclePositions branch that only re-raises the gathered exception
VpRaisesOnlyException(vp) == vp = TransportError

\* _fetch_feeds, VehiclePositions branch: exception, 429 and raise_for_status
VpRaises(vp) == vp = TransportError \/ vp = 429 \/ ~(vp \in 200..299)

\* ------------------------------------------- the store and its pipelines

\* the store keys the poller writes: vehicle:{id} hashes with their TTL,
\* the fleet set and fleet:ts
EmptyStore ==
    [hashes |-> [i \in VehicleIds |-> NoHash],
     ttl |-> [i \in VehicleIds |-> 0],
     fleet |-> {},
     ts |-> NoTs]

\* an EXPIRE that never sets a TTL
ApplyCmdNoExpire(st, c) ==
    CASE c.op = "hset" -> [st EXCEPT !.hashes[c.key] = c.val,
                                     !.ttl[c.key] = IF st.hashes[c.key] = NoHash
                                                    THEN NoTTL ELSE @]
      [] c.op = "expire" -> st
      [] c.op = "delete_fleet" -> [st EXCEPT !.fleet = {}]
      [] c.op = "sadd" -> [st EXCEPT !.fleet = @ \cup c.members]
      [] c.op = "set_ts" -> [st EXCEPT !.ts = c.val]

\* one queued command applied to the store
ApplyCmd(st, c) ==
    CASE c.op = "hset" -> [st EXCEPT !.hashes[c.key] = c.val,
                                     !.ttl[c.key] = IF st.hashes[c.key] = NoHash
                                                    THEN NoTTL ELSE @]
      [] c.op = "expire" -> IF st.hashes[c.key] = NoHash THEN st
                            ELSE [st EXCEPT !.ttl[c.key] = c.secs]
      [] c.op = "delete_fleet" -> [st EXCEPT !.fleet = {}]
      [] c.op = "sadd" -> [st EXCEPT !.fleet = @ \cup c.members]
      [] c.op = "set_ts" -> [st EXCEPT !.ts = c.val]

\* pipe.execute(): a MULTI/EXEC transaction, the queued commands applied in order
RECURSIVE Execute(_, _)
Execute(cmds, st) ==
    IF cmds = <<>> THEN st ELSE Execute(Tail(cmds), ApplyCmd(st, Head(cmds)))

\* a per-vehicle part that skips vehicles without an id
RECURSIVE VehicleCmdsSkipEmptyId(_)
VehicleCmdsSkipEmptyId(vehicles) ==
    IF vehicles = <<>> THEN <<>>
    ELSE LET v == Head(vehicles)
         IN  (IF v.vehicle_id = "" THEN <<>>
              ELSE << [op |-> "hset", key |-> v.vehicle_id,
                       val |-> [vehicle_id |-> v.vehicle_id,
                                delay_seconds |-> v.delay_seconds]],
                      [op |-> "expire", key |-> v.vehicle_id, secs |-> VEHICLE_TTL] >>)
             \o VehicleCmdsSkipEmptyId(Tail(vehicles))

\* _write_to_redis, the per-vehicle part of the pipeline: hset + expire
RECURSIVE VehicleCmds(_)
VehicleCmds(vehicles) ==
    IF vehicles = <<>> THEN <<>>
    ELSE LET v == Head(vehicles)
         IN  << [op |-> "hset", key |-> v.vehicle_id,
                 val |-> [vehicle_id |-> v.vehicle_id, delay_seconds |-> v.delay_seconds]],
                [op |-> "expire", key |-> v.vehicle_id, secs |-> VEHICLE_TTL] >>
             \o VehicleCmds(Tail(vehicles))

SeqIds(vehicles) == {vehicles[i].vehicle_id : i \in 1..Len(vehicles)}

\* a fleet part without pipe.delete
FleetCmdsNoDelete(vehicles) ==
    IF vehicles # <<>>
    THEN << [op |-> "sadd", members |-> SeqIds(vehicles)] >>
    ELSE <<>>

\* _write_to_redis, the fleet part: delete + sadd when there are ids
FleetCmds(vehicles) ==
    IF vehicles # <<>>
    THEN << [op |-> "delete_fleet"], [op |-> "sadd", members |-> SeqIds(vehicles)] >>
    ELSE <<>>

\* a pipeline that leaves fleet:ts alone
WritePipelineNoTs(vehicles, now) == VehicleCmds(vehicles) \o FleetCmds(vehicles)

\* _write_to_redis: the whole pipeline queued for one batch, stamped `now`
WritePipeline(vehicles, now) ==
    VehicleCmds(vehicles) \o FleetCmds(vehicles) \o << [op |-> "set_ts", val |-> now] >>

\* keys whose TTL runs out while `secs` seconds pass are removed
Elapse(st, secs) ==
    [st EXCEPT
       !.hashes = [i \in VehicleIds |->
                     IF st.ttl[i] # NoTTL /\ st.ttl[i] <= secs THEN NoHash ELSE st.hashes[i]],
       !.ttl = [i \in VehicleIds |->
                     IF st.ttl[i] = NoTTL THEN NoTTL
                     ELSE IF st.ttl[i] <= secs THEN 0 ELSE st.ttl[i] - secs]]

LiveIds(st) == {i \in VehicleIds : st.hashes[i] # NoHash}

\* ------------------------------------------- intervention engine: constants
INTERVENTION_TTL == 1800        \* expiry of interventions:active
ACTIVE_CAP == 20                \* all_interventions[:20]
HISTORY_KEEP == 200             \* ltrim(history, 0, 199) keeps 200 entries
DEFAULT_HEADWAY_MIN == 10
BUNCH_THRESHOLD_M == 400
SEVERE_THRESHOLD_M == 200
MODERATE_THRESHOLD_M == 300
GHOST_ROUTE_CAP == 10           \* ghosts.ghost_routes[:10]
GHOST_BUS_CAP == 5              \* ghosts.ghost_buses[:5]
GHOST_STALE_MIN == 300          \* backup DEPLOY only if stale_seconds > 300
HEALTH_CACHE_TTL == 30

NoVehicle == "None"             \* Intervention.vehicle_id = None
NoHold == -1                    \* Intervention.hold_seconds = None
NoStamp == 0                    \* a dict without the key actioned_at
NoSuchId == 0                   \* an id that no generation pass has issued

\* --------------------------------------------------- sequences, as Python
\* the elements of a finite set in increasing order of a key that is unique
\* on the set
SeqOfSetBy(S, Key(_)) ==
    [k \in 1..Cardinality(S) |->
        CHOOSE x \in S : Cardinality({y \in S : Key(y) < Key(x)}) = k - 1]

\* list.sort(key=...): Python's sort is stable
StableSort(s, Key(_)) ==
    LET n == Len(s)
        Pos(i) == Cardinality({j \in 1..n : Key(s[j]) < Key(s[i])})
                    + Cardinality({j \in 1..(i - 1) : Key(s[j]) = Key(s[i])}) + 1
    IN  [k \in 1..n |-> s[CHOOSE i \in 1..n : Pos(i) = k]]

\* s[:n]
Take(s, n) == SubSeq(s, 1, Min(n, Len(s)))

RECURSIVE Flatten(_)
Flatten(ss) == IF ss = <<>> THEN <<>> ELSE Head(ss) \o Flatten(Tail(ss))

\* ------------------------------------------------------ bunching detection
\* A vehicle of the live snapshot is [vehicle_id, route_id, pos]; pos is its
\* position along one line, so that the great-circle distance of two vehicles
\* is the difference of their positions.  Distances are floats in the code:
\* here a distance is a whole number of centimetres, and a distance rounded by
\* round(dist, 1) is a whole number of tenths of a metre.
CmPerM == 100
HaversineM(a, b) == Abs(a.pos - b.pos)

\* round(num / den) for num >= 0, a tie going to the even neighbour
RoundHalfEven(num, den) ==
    LET q == num \div den
        twice == 2 * (num % den)
    IN  IF twice < den THEN q
        ELSE IF twice > den THEN q + 1
        ELSE IF q % 2 = 0 THEN q ELSE q + 1

\* round(dist, 1): centimetres to tenths of a metre
Round1(dist) == RoundHalfEven(dist, 10)

\* a moderate band that reaches up to the bunching threshold
SeverityNoMild(dist) ==
    IF dist < SEVERE_THRESHOLD_M * CmPerM THEN "severe" ELSE "moderate"

Severity(dist) ==
    IF dist < SEVERE_THRESHOLD_M * CmPerM THEN "severe"
    ELSE IF dist < MODERATE_THRESHOLD_M * CmPerM THEN "moderate"
    ELSE "mild"

\* severity_order.get(a.severity, 3)
SeverityOrder(sev) ==
    CASE sev = "severe" -> 0
      [] sev = "moderate" -> 1
      [] sev = "mild" -> 2
      [] OTHER -> 3

\* route_groups: the non-empty route ids in order of first appearance
RouteGroups(vehicles) ==
    LET n == Len(vehicles)
        first == {i \in 1..n :
                    /\ vehicles[i].route_id # ""
                    /\ \A j \in 1..(i - 1) : vehicles[j].route_id # vehicles[i].route_id}
    IN  [k \in 1..Cardinality(first) |->
            vehicles[SeqOfSetBy(first, LAMBDA i : i)[k]].route_id]

\* the pairs (i, j), i < j, of one route with dist < BUNCH_THRESHOLD_M, in the
\* order of the two nested loops
BunchedPairs(route_id, buses) ==
    LET n == Len(buses)
        close == {ij \in (1..n) \X (1..n) :
                    /\ ij[1] < ij[2]
                    /\ HaversineM(buses[ij[1]], buses[ij[2]]) < BUNCH_THRESHOLD_M * CmPerM}
        order == SeqOfSetBy(close, LAMBDA ij : ij[1] * (n + 1) + ij[2])
    IN  [k \in 1..Cardinality(close) |->
            LET a == buses[order[k][1]]
                b == buses[order[k][2]]
                dist == HaversineM(a, b)
            IN  [vehicle_a |-> a.vehicle_id,
                 vehicle_b |-> b.vehicle_id,
                 route_id |-> route_id,
                 distance_m |-> Round1(dist),
                 severity |-> Severity(dist)]]

\* min(pairs, key=lambda p: p.distance_m): the first pair of least distance
WorstPair(pairs) ==
    pairs[CHOOSE k \in 1..Len(pairs) :
            /\ \A j \in 1..Len(pairs) : pairs[k].distance_m <= pairs[j].distance_m
            /\ \A j \in 1..(k - 1) : pairs[j].distance_m > pairs[k].distance_m]

BunchingAlertOf(route_id, pairs) ==
    [route_id |-> route_id,
     pair_count |-> Len(pairs),
     worst_distance_m |-> WorstPair(pairs).distance_m,
     severity |-> WorstPair(pairs).severity,
     bunched_pairs |-> pairs]

\* detect_bunching over the vehicles returned by get_all_vehicles
DetectBunching(vehicles) ==
    LET routes == RouteGroups(vehicles)
        pairs == [k \in 1..Len(routes) |->
                    BunchedPairs(routes[k],
                                 SelectSeq(vehicles, LAMBDA v : v.route_id = routes[k]))]
        hit == SelectSeq(pairs, LAMBDA ps : ps # <<>>)
        all_alerts == [k \in 1..Len(hit) |-> BunchingAlertOf(hit[k][1].route_id, hit[k])]
        sorted == StableSort(all_alerts,
                      LAMBDA a : SeverityOrder(a.severity) * (BUNCH_THRESHOLD_M * 10 + 1)
                                    + a.worst_distance_m)
    IN  [alerts |-> sorted,
         total_pairs |-> Len(Flatten(hit)),
         routes_affected |-> Len(all_alerts),
         total_live_vehicles |-> Len(vehicles)]

\* ------------------------------------------------- intervention generators
\* An Intervention object holds enum members (named here by their member
\* names); its id is assigned when the pass has built the whole list.
\* distance_m is a number of tenths of a metre, so int(distance_m / 5.5) is
\* the whole part of distance_m / 55
\* a hold time without the clamp to 30..180
HoldTimeNoClamp(distance_m) ==
    LET gap_seconds == Max(30, distance_m \div 55)
        target_gap_s == DEFAULT_HEADWAY_MIN * 60
    IN  (target_gap_s \div 2) - gap_seconds

HoldTime(distance_m) ==
    LET gap_seconds == Max(30, distance_m \div 55)
        target_gap_s == DEFAULT_HEADWAY_MIN * 60
    IN  Min(180, Max(30, (target_gap_s \div 2) - gap_seconds))

HoldPriority(severity) ==
    IF severity = "severe" THEN "CRITICAL"
    ELSE IF severity = "moderate" THEN "HIGH"
    ELSE "MEDIUM"

HoldOf(pair) ==
    LET hold_time == HoldTime(pair.distance_m)
    IN  [id |-> NoSuchId, type |-> "HOLD", priority |-> HoldPriority(pair.severity),
         status |-> "PENDING", route_id |-> pair.route_id, vehicle_id |-> pair.vehicle_b,
         hold_seconds |-> hold_time, wait_time_impact_seconds |-> 0 - hold_time]

\* _generate_hold_interventions: one HOLD per pair of every alert
GenerateHold(bunching) ==
    LET pairs == Flatten([k \in 1..Len(bunching.alerts) |-> bunching.alerts[k].bunched_pairs])
    IN  [k \in 1..Len(pairs) |-> HoldOf(pairs[k])]

\* _generate_deploy_interventions: ghost routes, then signal-lost buses
GenerateDeploy(ghosts) ==
    LET routes == Take(ghosts.ghost_routes, GHOST_ROUTE_CAP)
        buses == SelectSeq(Take(ghosts.ghost_buses, GHOST_BUS_CAP),
                           LAMBDA g : g.stale_seconds > GHOST_STALE_MIN)
    IN  [k \in 1..Len(routes) |->
            [id |-> NoSuchId, type |-> "DEPLOY", priority |-> "HIGH", status |-> "PENDING",
             route_id |-> routes[k], vehicle_id |-> NoVehicle, hold_seconds |-> NoHold]]
        \o
        [k \in 1..Len(buses) |->
            [id |-> NoSuchId, type |-> "DEPLOY", priority |-> "MEDIUM", status |-> "PENDING",
             route_id |-> buses[k].route_id, vehicle_id |-> buses[k].vehicle_id,
             hold_seconds |-> NoHold]]

\* int(total_high * 75 * 0.9): the float product is total_high * 67.5 cut to
\* its whole part
SurgePassengers(total_high) == (total_high * 675) \div 10

SurgeOf(summary) ==
    [id |-> NoSuchId, type |-> "SURGE",
     priority |-> IF summary.full >= 3 THEN "CRITICAL" ELSE "HIGH",
     status |-> "PENDING", route_id |-> summary.route_id,
     vehicle_id |-> NoVehicle, hold_seconds |-> NoHold,
     passengers_affected |-> SurgePassengers(summary.full + summary.standing)]

\* a trigger that looks at the full reports only
GenerateSurgeFullOnly(crowding) ==
    LET over == SelectSeq(crowding, LAMBDA s : s.full >= 2)
    IN  [k \in 1..Len(over) |-> SurgeOf(over[k])]

\* _generate_surge_interventions: one SURGE per route summary over the
\* trigger; passengers_affected is carried on a SURGE only, where the counts
\* fix it (a HOLD's depends on the hour of the day)
GenerateSurge(crowding) ==
    LET over == SelectSeq(crowding,
                    LAMBDA s : s.full >= 2 \/ s.full + s.standing >= 3)
    IN  [k \in 1..Len(over) |-> SurgeOf(over[k])]

\* priority_order.get(i.priority, 4)
PriorityOrder(priority) ==
    CASE priority = "CRITICAL" -> 0
      [] priority = "HIGH" -> 1
      [] priority = "MEDIUM" -> 2
      [] priority = "LOW" -> 3
      [] OTHER -> 4

\* the list left in generation order
KeepGenerationOrder(all) == all

\* all_interventions.sort(key=lambda i: priority_order.get(i.priority, 4))
SortByPriority(all) == StableSort(all, LAMBDA i : PriorityOrder(i.priority))

\* str(uuid.uuid4())[:8]: every intervention gets an id that was never issued
\* before, here the number of its pass and its place in the pass
IdStride == 100
WithIds(all, pass) == [k \in 1..Len(all) |-> [all[k] EXCEPT !.id = pass * IdStride + k]]

\* generate_interventions up to the store: the three generators in the order
\* HOLD, DEPLOY, SURGE, the sort and the cap
RankAndCap(holds, deploys, surges, pass) ==
    LET all_interventions == WithIds(holds \o deploys \o surges, pass)
    IN  Take(SortByPriority(all_interventions), ACTIVE_CAP)

BuildActive(vehicles, ghosts, crowding, pass) ==
    RankAndCap(GenerateHold(DetectBunching(vehicles)), GenerateDeploy(ghosts),
               GenerateSurge(crowding), pass)

\* Enum.value of the members used
EnumValue(member) ==
    CASE member = "CRITICAL" -> "critical"
      [] member = "HIGH" -> "high"
      [] member = "MEDIUM" -> "medium"
      [] member = "LOW" -> "low"
      [] member = "PENDING" -> "pending"
      [] member = "APPROVED" -> "approved"
      [] member = "DISMISSED" -> "dismissed"
      [] member = "EXPIRED" -> "expired"
      [] OTHER -> member

\* json.loads(json.dumps(intv.to_dict())): the enum fields by value; the dict
\* has no key actioned_at
ToDict(intv) ==
    [id |-> intv.id, type |-> EnumValue(intv.type), priority |-> EnumValue(intv.priority),
     status |-> EnumValue(intv.status), route_id |-> intv.route_id,
     vehicle_id |-> intv.vehicle_id, hold_seconds |-> intv.hold_seconds,
     actioned_at |-> NoStamp]

\* _store_interventions: delete, rpush each, expire -- one MULTI/EXEC.  EXPIRE
\* on the key that an empty pass left missing does nothing.
StoreInterventions(interventions) ==
    [list |-> [k \in 1..Len(interventions) |-> ToDict(interventions[k])],
     ttl |-> IF interventions = <<>> THEN NoTTL ELSE INTERVENTION_TTL]

\* intv["status"] = action + "d"
ActionStatus(action) == action \o "d"

\* the first index (from 1) of the element with the id, 0 when there is none
FindId(raw, intervention_id) ==
    IF \E i \in 1..Len(raw) : raw[i].id = intervention_id
    THEN CHOOSE i \in 1..Len(raw) :
            /\ raw[i].id = intervention_id
            /\ \A j \in 1..(i - 1) : raw[j].id # intervention_id
    ELSE 0

\* no trim
LtrimKeepAll(h) == h

\* ltrim(history, 0, 199)
Ltrim(h) == Take(h, HISTORY_KEEP)

\* lrange(history, 0, limit - 1), limit >= 1
HistoryRange(h, limit) == Take(h, limit)

\* ------------------------------------------- intervention engine: inputs
\* what get_all_vehicles returns to the detectors of one pass
FleetNone == <<>>
FleetPair ==
    << [vehicle_id |-> "A", route_id |-> "R1", pos |-> 0],
       [vehicle_id |-> "X", route_id |-> "", pos |-> 0],
       [vehicle_id |-> "B", route_id |-> "R1", pos |-> 35000],
       [vehicle_id |-> "Y", route_id |-> "R2", pos |-> 10000] >>
FleetTrio ==
    << [vehicle_id |-> "A", route_id |-> "R1", pos |-> 0],
       [vehicle_id |-> "B", route_id |-> "R1", pos |-> 10000],
       [vehicle_id |-> "C", route_id |-> "R1", pos |-> 35000] >>
\* enough same-route buses at one stop for more pairs than ACTIVE_CAP
PackIds == <<"A", "B", "C", "D", "E", "F", "G">>
FleetPack == [k \in 1..Len(PackIds) |-> [vehicle_id |-> PackIds[k], route_id |-> "R1", pos |-> 0]]

\* GhostBusReport: schedule-only routes and signal-lost buses
GhostsNone == [ghost_routes |-> <<>>, ghost_buses |-> <<>>]
GhostsSome ==
    [ghost_routes |-> <<"R9">>,
     ghost_buses |-> << [vehicle_id |-> "G1", route_id |-> "R1", stale_seconds |-> 301],
                        [vehicle_id |-> "G2", route_id |-> "R2", stale_seconds |-> 300] >>]

\* seven buses of one route strung along it, their pairs in all three bands of
\* severity, and a report with more ghost routes than GHOST_ROUTE_CAP and two
\* silent buses
FleetMixed ==
    LET at == <<0, 15000, 33000, 56000, 60000, 90000, 95000>>
    IN  [k \in 1..Len(at) |-> [vehicle_id |-> PackIds[k], route_id |-> "R1", pos |-> at[k]]]
GhostsMany ==
    [ghost_routes |-> <<"R10", "R11", "R12", "R13", "R14", "R15", "R16", "R17", "R18", "R19",
                        "R20">>,
     ghost_buses |-> << [vehicle_id |-> "G1", route_id |-> "R1", stale_seconds |-> 301],
                        [vehicle_id |-> "G2", route_id |-> "R2", stale_seconds |-> 900] >>]

\* CrowdingSnapshot.route_summaries: per route the counts of the two high levels
CrowdNone == <<>>
CrowdHigh == << [route_id |-> "R1", full |-> 2, standing |-> 0],
                [route_id |-> "R2", full |-> 1, standing |-> 1] >>
CrowdCritical == << [route_id |-> "R1", full |-> 3, standing |-> 0] >>

\* the detector outputs of one pass
GenInputs ==
    { [vehicles |-> FleetNone, ghosts |-> GhostsNone, crowding |-> CrowdNone],
      [vehicles |-> FleetPair, ghosts |-> GhostsNone, crowding |-> CrowdNone],
      [vehicles |-> FleetTrio, ghosts |-> GhostsSome, crowding |-> CrowdHigh],
      [vehicles |-> FleetPack, ghosts |-> GhostsSome, crowding |-> CrowdCritical] }

\* what a first pass stores for each input; a later pass differs in the ids
Stored ==
    [input \in GenInputs |->
        StoreInterventions(BuildActive(input.vehicles, input.ghosts, input.crowding, 1))]

\* the request bodies of POST /ops/interventions/{id}
Actions == {"approve", "dismiss", "delete"}

\* the limits of GET /ops/interventions/history: Query(50, ge=1, le=200)
HistLimits == {1, 50, 200}

Actors == {"a1", "a2"}      \* concurrent POST /ops/interventions/{id} requests
Callers == {"h1", "h2"}     \* concurrent GET /ops/health requests

NoRec ==
    [id |-> NoSuchId, type |-> "-", priority |-> "-", status |-> "-", route_id |-> "",
     vehicle_id |-> NoVehicle, hold_seconds |-> NoHold, actioned_at |-> NoStamp]

\* HTTP responses of update_intervention: FastAPI answers 200 for a returned
\* dict and 500 for an exception that no handler catches
HTTP_OK == 200
HTTP_SERVER_ERROR == 500
NoRet == [http |-> 0, kind |-> "none"]
NoCall == [id |-> NoSuchId, action |-> "-", seen |-> "-"]

\* body.action not in ("approve", "dismiss")
ValidAction(action) == action \in {"approve", "dismiss"}

\* a history of n earlier actions, the newest first
EarlierHistory(n) ==
    [k \in 1..n |->
        [id |-> -k, type |-> "HOLD", priority |-> "high",
         status |-> IF k % 2 = 0 THEN "approved" ELSE "dismissed",
         route_id |-> "R1", vehicle_id |-> "B", hold_seconds |-> 180, actioned_at |-> -k]]

\* ------------------------------------------------------- network health
\* The report, as far as the cache is concerned: the fields that depend on the
\* gathered snapshot, on interventions:active and on the clock.
NoCache == <<>>         \* GET health:latest of a missing key: None
NoReport == [total_live_vehicles |-> -1, total_routes_active |-> -1,
             interventions_pending |-> -1, generated_at |-> NoStamp]

\* json.dumps(report.to_dict()): the keys in the order to_dict gives them
DumpReport(report) ==
    << <<"total_live_vehicles", report.total_live_vehicles>>,
       <<"total_routes_active", report.total_routes_active>>,
       <<"interventions_pending", report.interventions_pending>>,
       <<"generated_at", report.generated_at>> >>

\* data[key] of json.loads(cached)
JsonGet(data, key) == data[CHOOSE k \in 1..Len(data) : data[k][1] = key][2]

\* a load that does not read interventions_pending
LoadReportNoPending(cached) ==
    [total_live_vehicles |-> JsonGet(cached, "total_live_vehicles"),
     total_routes_active |-> JsonGet(cached, "total_routes_active"),
     interventions_pending |-> 0,
     generated_at |-> JsonGet(cached, "generated_at")]

\* NetworkHealthReport(... data["..."] ...) of the cached text
LoadReport(cached) ==
    [total_live_vehicles |-> JsonGet(cached, "total_live_vehicles"),
     total_routes_active |-> JsonGet(cached, "total_routes_active"),
     interventions_pending |-> JsonGet(cached, "interventions_pending"),
     generated_at |-> JsonGet(cached, "generated_at")]

\* sum(1 for i in active_interventions if i.get("status") == "pending")
PendingCount(list) == Cardinality({k \in 1..Len(list) : list[k].status = "pending"})

\* ------------------------------------------------ network health: score
\* Scores are floats in the code; here a weighted value (rounded by the code to
\* one decimal) is a whole number of tenths.  Where the exact value lies
\* halfway between two tenths the float may fall on either side, so the
\* rounding takes the neighbour that `up` names (0 or 1).
RoundTie(num, den, up) ==
    LET q == num \div den
        twice == 2 * (num % den)
    IN  IF twice < den THEN q
        ELSE IF twice > den THEN q + 1
        ELSE q + up

FALLBACK_ROUTES == 116      \* len(route_map) if route_map else 116
ON_TIME_MAX_DELAY == 300    \* delay <= 300

\* lines 151-176: round(on_time_score * 0.40, 1), in tenths
OnTimeWeighted(delays, up) ==
    LET total_vehicles == Len(delays)
        on_time_count ==
            Cardinality({k \in 1..total_vehicles : Abs(delays[k]) <= ON_TIME_MAX_DELAY})
    IN  IF total_vehicles > 0
        THEN RoundTie(Min(100 * total_vehicles, 100 * on_time_count) * 4, total_vehicles, up)
        ELSE 50 * 4

\* lines 178-194: round(min(100, ghost_score) * 0.25, 1), in tenths
CoverageWeighted(routes_with_buses, catalog_routes, up) ==
    LET total_expected_routes ==
            IF catalog_routes > 0 THEN catalog_routes ELSE FALLBACK_ROUTES
    IN  RoundTie(Min(250 * total_expected_routes, 500 * routes_with_buses),
                 total_expected_routes, up)

\* lines 196-209: round(bunching_score * 0.20, 1), in tenths;
\* max(1, total_vehicles / 10) is max(10, total_vehicles) / 10
BunchingWeighted(total_pairs, total_vehicles, up) ==
    LET tens == Max(10, total_vehicles)
    IN  IF total_vehicles > 0
        THEN RoundTie(Max(0, 200 * tens - 500 * total_pairs), tens, up)
        ELSE 100 * 2

\* lines 211-232: round(crowding_score * 0.15, 1), in tenths
CrowdingWeighted(full_reports, standing_reports, total_reports, up) ==
    IF total_reports > 0
    THEN RoundTie(Max(0, 300 * total_reports - 150 * (2 * full_reports + standing_reports)),
                  2 * total_reports, up)
    ELSE RoundTie(85 * 15, 10, up)

\* a grading whose B starts at 80
ScoreToGradeB80(score) ==
    IF score >= 90 THEN <<"A", "excellent">>
    ELSE IF score >= 80 THEN <<"B", "good">>
    ELSE IF score >= 60 THEN <<"C", "fair">>
    ELSE IF score >= 40 THEN <<"D", "poor">>
    ELSE <<"F", "crisis">>

\* _score_to_grade
ScoreToGrade(score) ==
    IF score >= 90 THEN <<"A", "excellent">>
    ELSE IF score >= 75 THEN <<"B", "good">>
    ELSE IF score >= 60 THEN <<"C", "fair">>
    ELSE IF score >= 40 THEN <<"D", "poor">>
    ELSE <<"F", "crisis">>

\* lines 234-238: raw_score = sum(c.weighted ...); score = max(0, min(100,
\* int(round(raw_score)))); the grade
CompositeScore(inp, ups) ==
    LET weighted ==
            << OnTimeWeighted(inp.delays, ups[1]),
               CoverageWeighted(inp.routes_with_buses, inp.catalog_routes, ups[2]),
               BunchingWeighted(inp.total_pairs, Len(inp.delays), ups[3]),
               CrowdingWeighted(inp.crowd.full, inp.crowd.standing,
                                inp.crowd.reports_last_hour, ups[4]) >>
        raw_score == weighted[1] + weighted[2] + weighted[3] + weighted[4]
        score == Max(0, Min(100, RoundTie(raw_score, 10, ups[5])))
    IN  [weighted |-> weighted, score |-> score,
         grade |-> ScoreToGrade(score)[1], status |-> ScoreToGrade(score)[2]]

\* what the detectors hand to the score: the delays of the fleet, the ghost
\* report's total_routes_with_buses, the size of the route catalog, the bunching
\* report's total_pairs, and the crowding snapshot's counts
MaxScoreFleet == 4
ScoreDelays == {0, -301, 900}
ScoreFleets ==
    UNION {[1..n -> ScoreDelays] : n \in 0..MaxScoreFleet}
        \cup {[k \in 1..32 |-> IF k <= c THEN 0 ELSE 301] : c \in {1, 31, 32}}
ScoreCrowds ==
    { [full |-> 0, standing |-> 0, reports_last_hour |-> 0],
      [full |-> 0, standing |-> 1, reports_last_hour |-> 2],
      [full |-> 1, standing |-> 1, reports_last_hour |-> 3],
      [full |-> 3, standing |-> 0, reports_last_hour |-> 3],
      [full |-> 0, standing |-> 0, reports_last_hour |-> 50] }
ScoreInputs ==
    { inp \in [delays : ScoreFleets, routes_with_buses : 0..2,
               catalog_routes : {0, 3, 120}, total_pairs : {0, 1, 6},
               crowd : ScoreCrowds] :
        /\ inp.routes_with_buses <= Len(inp.delays)
        /\ 2 * inp.total_pairs <= Len(inp.delays) * (Len(inp.delays) - 1) }

\* --------------------------------------------------------- ghost detection
\* A vehicle of the snapshot is here [vehicle_id, route_id, age]: age is
\* now - timestamp in tenths of a second (now carries microseconds, the feed's
\* timestamps whole seconds), or BadTimestamp for a timestamp that
\* datetime.fromisoformat rejects.
STALE_THRESHOLD_S == 120
TenthsPerS == 10
BadTimestamp == -1000000

\* int(x) of the float num / den: the fraction is cut off, towards zero
IntOf(num, den) == IF num >= 0 THEN num \div den ELSE 0 - ((0 - num) \div den)

\* age_s = int((now - ts).total_seconds()), ts = now for a bad timestamp
AgeS(v) == IF v.age = BadTimestamp THEN 0 ELSE IntOf(v.age, TenthsPerS)

\* the route ids in the order sorted() gives strings
RouteOrder == <<"R1", "R2", "R3", "R9">>
RouteRank(rid) == CHOOSE k \in 1..Len(RouteOrder) : RouteOrder[k] = rid

\* the set difference with its operands exchanged
GhostRouteIdsSwapped(all_route_ids, live_route_ids) == live_route_ids \ all_route_ids

\* ghost_route_ids = all_route_ids - live_route_ids
GhostRouteIds(all_route_ids, live_route_ids) == all_route_ids \ live_route_ids

\* detect_ghost_buses over the snapshot and gtfs_static.route_map's keys
DetectGhostBuses(vehicles, route_ids) ==
    LET n == Len(vehicles)
        stale == SelectSeq(vehicles, LAMBDA v : AgeS(v) > STALE_THRESHOLD_S)
        ghost_buses == [k \in 1..Len(stale) |->
                            [vehicle_id |-> stale[k].vehicle_id,
                             route_id |-> stale[k].route_id,
                             stale_seconds |-> AgeS(stale[k])]]
        live_route_ids == {vehicles[k].route_id : k \in {j \in 1..n :
                                /\ ~(AgeS(vehicles[j]) > STALE_THRESHOLD_S)
                                /\ vehicles[j].route_id # ""}}
        ghost_route_ids == GhostRouteIds(route_ids, live_route_ids)
    IN  [ghost_buses |-> ghost_buses,
         ghost_routes |-> SeqOfSetBy(ghost_route_ids, RouteRank),
         total_live_vehicles |-> n - Len(stale),
         total_ghost_vehicles |-> Len(ghost_buses),
         total_routes_with_buses |-> Cardinality(live_route_ids),
         total_routes_without_buses |-> Cardinality(ghost_route_ids)]

\* --------------------------------------------------------- stats collector
COLLECTION_INTERVAL == 300

\* the attributes of a GhostBusReport object (the dataclass fields)
GhostBusReportFields ==
    {"ghost_buses", "ghost_routes", "total_live_vehicles", "total_ghost_vehicles",
     "total_routes_with_buses", "total_routes_without_buses", "generated_at"}

\* the attributes of the ghost report that collect_stats_snapshot reads
StatsReads == {"signal_lost", "dead_routes"}

\* getattr on the report: a name that is no attribute raises AttributeError
Raises(names) == \E name \in names : name \notin GhostBusReportFields

\* ----------------------------------------------------------- crowd reports
\* A stored report is [id, vehicle_id, route_id, crowding_level, reported_at];
\* id is <<vehicle_id, the millisecond of the call>>.
REPORT_TTL == 3600
REPORTS_KEEP == 500             \* ltrim(REPORTS_LIST_KEY, 0, 499)
ROUTE_REPORTS_KEEP == 100       \* ltrim(route_key, 0, 99)
RECENT_LIMIT == 50              \* get_recent_reports(50)

CrowdVehicles == {"V1", "V2", "V3"}
CrowdRoutes == {"R1", "R2"}
CrowdLevels == {"seats", "standing", "full"}
NoCrowdReport == [id |-> <<"", -1>>]    \* GET of a missing crowd:vehicle key; no report built

Reverse(s) == [k \in 1..Len(s) |-> s[Len(s) + 1 - k]]

\* StoredCrowdReport(...) as built by submit_crowd_report at the instant now
StoredCrowdReport(report, now) ==
    [id |-> <<report.vehicle_id, now>>, vehicle_id |-> report.vehicle_id,
     route_id |-> report.route_id, crowding_level |-> report.crowding_level,
     reported_at |-> now]

\* a trim that keeps the whole list
CrowdLtrimKeepAll(list, keep) == list

\* ltrim(key, 0, keep - 1)
CrowdLtrim(list, keep) == Take(list, keep)

\* lpush then ltrim
PushTrim(list, report_json, keep) == CrowdLtrim(<<report_json>> \o list, keep)

\* the crowd keys after the pipelines of the given submissions (oldest first),
\* none of them expired
CrowdStoreOf(sent) ==
    LET newest == Reverse(sent)
        OnRoute(r) == SelectSeq(newest, LAMBDA s : s.route_id = r)
        OfVehicle(v) == SelectSeq(newest, LAMBDA s : s.vehicle_id = v)
    IN  [reports |-> Take(newest, REPORTS_KEEP),
         route |-> [r \in CrowdRoutes |-> Take(OnRoute(r), ROUTE_REPORTS_KEEP)],
         vehicle |-> [v \in CrowdVehicles |->
                        IF OfVehicle(v) = <<>> THEN NoCrowdReport ELSE Head(OfVehicle(v))],
         total |-> Len(sent),
         ttl |-> [reports |-> IF sent = <<>> THEN NoTTL ELSE REPORT_TTL,
                  route |-> [r \in CrowdRoutes |->
                                IF OnRoute(r) = <<>> THEN NoTTL ELSE REPORT_TTL],
                  vehicle |-> [v \in CrowdVehicles |->
                                IF OfVehicle(v) = <<>> THEN NoTTL ELSE REPORT_TTL]]]

\* get_recent_reports(limit): lrange(REPORTS_LIST_KEY, 0, limit - 1)
GetRecentReports(list, limit) == Take(list, limit)

\* the distinct route ids of the reports in order of first appearance (the
\* key order of the dict route_agg)
RECURSIVE FirstSeen(_, _)
FirstSeen(reports, seen) ==
    IF reports = <<>> THEN seen
    ELSE FirstSeen(Tail(reports),
                   IF \E k \in 1..Len(seen) : seen[k] = Head(reports).route_id
                   THEN seen ELSE Append(seen, Head(reports).route_id))

\* get_crowding_snapshot: the route summaries over the 50 newest reports, most
\* reports first; a summary carries the counts of the two high levels
GetCrowdingSnapshot(list, total) ==
    LET recent == GetRecentReports(list, RECENT_LIMIT)
        rids == FirstSeen(recent, <<>>)
        Count(rid, level) ==
            Cardinality({k \in 1..Len(recent) :
                            recent[k].route_id = rid /\ recent[k].crowding_level = level})
        summaries ==
            [k \in 1..Len(rids) |->
                [route_id |-> rids[k], full |-> Count(rids[k], "full"),
                 standing |-> Count(rids[k], "standing"),
                 report_count |-> Cardinality({j \in 1..Len(recent) :
                                                    recent[j].route_id = rids[k]})]]
    IN  [total_reports |-> total,
         reports_last_hour |-> Len(recent),
         route_summaries |-> StableSort(summaries, LAMBDA s : 0 - s.report_count)]

\* -------------------------------------------------- calls under study
\* a call that has not returned, and one that returned value
NoResult == [done |-> FALSE]
Returned(value) == [done |-> TRUE, value |-> value]
NoArgs == <<>>

\* bounds of the inputs drawn for these calls
MaxFleet == 3

\* positions (cm) that put pairs on both sides of each threshold
BunchPositions == {0, 10000, 19996, 20000, 39996, 40000}
BunchRoutes == {"", "R1", "R2"}
FleetIds == <<"A", "B", "C", "D">>

\* the fleets of up to MaxFleet vehicles, the k-th vehicle named FleetIds[k]
BunchFleets ==
    UNION {
        { [k \in 1..n |-> [vehicle_id |-> FleetIds[k], route_id |-> r[k], pos |-> q[k]]] :
            r \in [1..n -> BunchRoutes], q \in [1..n -> BunchPositions] } :
        n \in 0..MaxFleet }

\* snapshots of up to MaxFleet vehicles with ages on both sides of the
\* threshold, and route catalogs
GhostAges == {0, 1200, 1205, 1210, 3010, BadTimestamp}
GhostRoutesOfVehicles == {"", "R1", "R2", "R9"}
GhostCatalogs == {{}, {"R1"}, {"R2", "R3"}, {"R1", "R2", "R3"}}
GhostInputs ==
    UNION {
        { [vehicles |-> [k \in 1..n |-> [vehicle_id |-> FleetIds[k], route_id |-> r[k],
                                         age |-> a[k]]],
           route_ids |-> cat] :
            r \in [1..n -> GhostRoutesOfVehicles], a \in [1..n -> GhostAges],
            cat \in GhostCatalogs } :
        n \in 0..(MaxFleet - 1) }

\* the bodies of POST /crowding/report: V1 and V2 run on R1, V3 on R2
MaxSubmits == 3
CrowdBodies ==
    { [vehicle_id |-> "V1", route_id |-> "R1", crowding_level |-> "full"],
      [vehicle_id |-> "V2", route_id |-> "R1", crowding_level |-> "standing"],
      [vehicle_id |-> "V3", route_id |-> "R2", crowding_level |-> "full"] }

\* an hour of earlier submissions, one short of the cap of crowd:reports, all
\* for V1 on R1
EarlierReports ==
    [k \in 1..(REPORTS_KEEP - 1) |->
        StoredCrowdReport([vehicle_id |-> "V1", route_id |-> "R1",
                           crowding_level |-> "seats"], k - 1)]

\* crowd:reports as sequences of up to MaxReports submissions on two routes,
\* and one of 52 whose two oldest reports lie beyond the 50 that are read
MaxReports == 4
SurgeSubmissions ==
    LET bodies == { [vehicle_id |-> vr[1], route_id |-> vr[2], crowding_level |-> lv] :
                        vr \in {<<"V1", "R1">>, <<"V3", "R2">>}, lv \in CrowdLevels }
        AsSent(s) == [k \in 1..Len(s) |-> StoredCrowdReport(s[k], k - 1)]
    IN  {AsSent(s) : s \in SeqsUpTo(bodies, MaxReports)}
            \cup {[k \in 1..(RECENT_LIMIT + 2) |->
                    StoredCrowdReport(
                        IF k <= 2
                        THEN [vehicle_id |-> "V3", route_id |-> "R2", crowding_level |-> "full"]
                        ELSE [vehicle_id |-> "V1", route_id |-> "R1", crowding_level |-> "seats"],
                        k - 1)]}

\* the other detectors' inputs of such a pass, and the HOLDs of each fleet
SurgeFleets ==
    { [vehicles |-> FleetNone, ghosts |-> GhostsNone],
      [vehicles |-> FleetNone, ghosts |-> GhostsSome],
      [vehicles |-> FleetPack, ghosts |-> GhostsSome] }
HoldsOfFleet ==
    [vehicles \in {FleetNone, FleetPack, FleetMixed} |-> GenerateHold(DetectBunching(vehicles))]

\* ghost reports as detect_ghost_buses builds them: the ghost routes sorted,
\* up to MaxGhostBuses signal-lost buses in fleet order, with stale_seconds on
\* both sides of GHOST_STALE_MIN
MaxGhostBuses == 6
DeployRouteOrder == <<"R10", "R11", "R12", "R13", "R14", "R15", "R16", "R17", "R18", "R19",
                      "R20", "R21">>
DeployBusIds == <<"G1", "G2", "G3", "G4", "G5", "G6", "G7">>
DeployReports ==
    UNION {
        { [ghost_routes |-> Take(DeployRouteOrder, r),
           ghost_buses |-> [k \in 1..n |-> [vehicle_id |-> DeployBusIds[k], route_id |-> "R1",
                                            stale_seconds |-> s[k]]]] :
            r \in {0, 1, GHOST_ROUTE_CAP, GHOST_ROUTE_CAP + 2},
            s \in [1..n -> {121, GHOST_STALE_MIN, GHOST_STALE_MIN + 1}] } :
        n \in 0..MaxGhostBuses }

\* passes whose generators give more than ACTIVE_CAP interventions of several
\* priorities, and crowd:reports as up to MaxRankReports submissions
MaxRankReports == 3
RankFleets ==
    { [vehicles |-> FleetNone, ghosts |-> GhostsSome],
      [vehicles |-> FleetMixed, ghosts |-> GhostsNone],
      [vehicles |-> FleetMixed, ghosts |-> GhostsMany],
      [vehicles |-> FleetPack, ghosts |-> GhostsMany] }
RankSubmissions ==
    LET bodies == { [vehicle_id |-> vr[1], route_id |-> vr[2], crowding_level |-> lv] :
                        vr \in {<<"V1", "R1">>, <<"V3", "R2">>}, lv \in {"standing", "full"} }
        AsSent(s) == [k \in 1..Len(s) |-> StoredCrowdReport(s[k], k - 1)]
    IN  {AsSent(s) : s \in SeqsUpTo(bodies, MaxRankReports)}

\* TripUpdates feeds of up to MaxUpdates entities, the same trip_id possibly
\* in two of them (a trip is identified by trip_id and start_date)
MaxUpdates == 2
ParseStus ==
    { <<>>,
      << [arrival |-> -40, departure |-> 25] >>,
      << [arrival |-> 0, departure |-> NoField] >>,
      << [arrival |-> 60, departure |-> NoField], [arrival |-> NoField, departure |-> -90] >> }
ParseInputs ==
    [vp : VpBodies, tu : SeqsUpTo([trip_id : {"", "T1", "T2"}, stus : ParseStus], MaxUpdates)]

\* what the three detectors of a pass read: the fleet (each vehicle with its
\* position and the age of its timestamp), the route catalog, and crowd:reports
\* with crowd:total_count; the list is empty with a counter left behind once
\* its hour has run out
DetectorFleets ==
    UNION {
        { [k \in 1..n |-> [vehicle_id |-> FleetIds[k], route_id |-> r[k], pos |-> q[k],
                           age |-> a[k]]] :
            r \in [1..n -> {"", "R1"}], q \in [1..n -> {0, 10000}],
            a \in [1..n -> {0, 1210}] } :
        n \in 0..(MaxFleet - 1) }
DetectorCrowds ==
    LET sent == [k \in 1..2 |->
                    StoredCrowdReport([vehicle_id |-> "V1", route_id |-> "R1",
                                       crowding_level |-> "full"], k - 1)]
    IN  { [list |-> <<>>, total |-> 0],
          [list |-> <<>>, total |-> Len(sent)],
          [list |-> CrowdStoreOf(sent).reports, total |-> CrowdStoreOf(sent).total] }
DetectorInputs ==
    { [vehicles |-> f, route_ids |-> cat, crowd |-> c] :
        f \in DetectorFleets, cat \in GhostCatalogs, c \in DetectorCrowds }

\* ------------------------------------------------------------------ state
VARIABLES
    store,      \* vehicle hashes + TTLs, fleet, fleet:ts
    chan,       \* timestamps of the snapshots published on the live channel
    loop,       \* which poll loop runs the poller: "_poll_loop" or "run_poller"
    apiKey,     \* poller.api_key is non-empty
    pc,         \* poll task: idle, fetching, executed, sleeping, cancelled
    resp,       \* outcomes of the two GETs of the tick in progress
    pending,    \* the snapshot built by _write_to_redis, not yet published
    backoff,    \* the loop's sleep before the next tick
    fails,      \* consecutive failed polls (history)
    nwrites,    \* the store clock: number of pipelines executed
    closed,     \* the poller's httpx client was closed
    lapsed,     \* ids whose hash was removed by its TTL and not written since (history)
    rpc,        \* get_all_vehicles: idle, ids (fleet read), done
    rIds,       \* the reader's copy of the fleet members
    rMissing,   \* ids whose hgetall came back empty (dropped from the result)
    rLapsed,    \* the ids of rMissing whose hash had been removed by its TTL (history)
    rRaced,     \* a poll pipeline executed between the reader's two reads (history)
    delivers,   \* publish on the live channel reaches the subscribers
    subs,       \* clients subscribed to the live channel
    wpc,        \* per client: where its websocket_live handler is
    wsOpen,     \* per client: the client side of the socket is open
    appState,   \* per client: ws.application_state
    wTs,        \* per client: the fleet:ts its handler read last
    lastTs,     \* per client: last_ts of _stream_via_polling
    inbox,      \* per client: messages queued on its subscription
    got,        \* per client: timestamps of the snapshots sent to it, in order
    wFailed,    \* per client: a pub/sub call raised in its handler (history)
    due,        \* per client: fleet:ts values written while it was connected (history)
    active,     \* interventions:active, a list of intervention dicts
    activeTtl,  \* its remaining TTL
    history,    \* interventions:history, newest first
    clock,      \* readings of datetime.now() taken so far
    passes,     \* generation passes run so far
    apc,        \* per action request: idle, lset, lpush, ltrim, done
    aCall,      \* per action request in progress: the id and action asked for, and the
                \* status the scan found on the element
    aIdx,       \* per action request: the index found by the scan
    aRec,       \* per action request: the actioned record
    aRet,       \* per action request: status and kind of the HTTP response
    hres,       \* what the last history read returned
    settled,    \* the record in the last "data" response, if no action made a step since
    stale,      \* an lset overwrote an element with another id since the last pass (history)
    health,     \* health:latest, the cached report text
    healthTtl,  \* its remaining TTL
    healthGen,  \* number of reports stored so far (history)
    healthSrc,  \* the report object whose text was stored last (history)
    hpc,        \* per health request: idle, gather, count, set, done
    hRep,       \* per health request: the report built or returned
    hHit,       \* per health request: the stored report it was served from, 0 if none (history)
    elapsed,    \* number of times TimePasses has run
    fnArgs,     \* the arguments of the call of a pure function under study
    fnRet,      \* what that call returned
    crowdReports,   \* crowd:reports, newest first
    crowdRoute,     \* crowd:route:{route_id}, per route, newest first
    crowdVehicle,   \* crowd:vehicle:{vehicle_id}, per vehicle
    crowdTotal,     \* crowd:total_count
    crowdTtl,       \* the remaining TTL of the three kinds of crowd key
    sbpc,       \* per crowd report request: idle, execute, publish
    sbRep,      \* per crowd report request: the StoredCrowdReport built
    pulse,      \* the crowd_report message published last on the live channel
    submitted,  \* the reports of all pipelines executed so far, oldest first (history)
    statsPc,    \* stats task: sleeping, collecting
    statsLines, \* number of lines in data/stats.jsonl
    statsErrors,    \* exceptions logged by _stats_loop so far (history)
    statsCycles,    \* cycles of _stats_loop that found a non-empty fleet (history)
    wVeh,       \* per client: the polls whose fleet and whose hashes the handler's
                \* get_all_vehicles read last (history)
    gotVeh,     \* per client: the same for the vehicle list of each snapshot sent to
                \* it, in order (history)
    lpc,        \* lifespan: serving, await_ingestion, close_redis, close_db, done, raised
    redisClosed,    \* close_redis() has run
    dbClosed        \* close_db() has run

pollerVars == <<store, chan, loop, apiKey, pc, resp, pending, backoff, fails, nwrites, closed,
                lapsed>>
readerVars == <<rpc, rIds, rMissing, rLapsed, rRaced>>
snapVars == <<wVeh, gotVeh>>
lifeVars == <<lpc, redisClosed, dbClosed>>
wsVars == <<delivers, subs, wpc, wsOpen, appState, wTs, lastTs, inbox, got, wFailed, due,
            snapVars, lifeVars>>
engineVars == <<active, activeTtl, history, clock, passes, apc, aCall, aIdx, aRec, aRet,
                hres, settled, stale>>
healthVars == <<health, healthTtl, healthGen, healthSrc, hpc, hRep, hHit, elapsed>>
calcVars == <<fnArgs, fnRet>>
crowdVars == <<crowdReports, crowdRoute, crowdVehicle, crowdTotal, crowdTtl, sbpc, sbRep,
               pulse, submitted>>
statsVars == <<statsPc, statsLines, statsErrors, statsCycles>>
restVars == <<calcVars, crowdVars, statsVars, lifeVars>>
moreVars == <<restVars, snapVars>>
opsVars == <<engineVars, healthVars, moreVars>>
vars == <<store, chan, loop, apiKey, pc, resp, pending, backoff, fails, nwrites, closed,
          lapsed, rpc, rIds, rMissing, rLapsed, rRaced,
          delivers, subs, wpc, wsOpen, appState, wTs, lastTs, inbox, got, wFailed, due,
          active, activeTtl, history, clock, passes, apc, aCall, aIdx, aRec, aRet, hres,
          settled, stale, health, healthTtl, healthGen, healthSrc, hpc, hRep, hHit, elapsed,
          fnArgs, fnRet, crowdReports, crowdRoute, crowdVehicle, crowdTotal, crowdTtl, sbpc,
          sbRep, pulse, submitted, statsPc, statsLines, statsErrors, statsCycles, wVeh, gotVeh, lpc, redisClosed, dbClosed>>

Clients == {"c1"}

NoOutcome == -1
NoResp == [vp |-> NoOutcome, tu |-> NoOutcome]
NoMsg == [type |-> "none", vehicles |-> <<>>, timestamp |-> NoTs]
NoRead == [ids |-> NoTs, hashes |-> NoTs]

\* the loop's base interval: POLL_INTERVAL for _poll_loop, GTFS_RT_INTERVAL for
\* run_poller("gtfs_rt", gtfs_rt.poll, GTFS_RT_INTERVAL)
Base == IF loop = "_poll_loop" THEN POLL_INTERVAL ELSE GTFS_RT_INTERVAL

\* a doubling without the cap
NextBackoffUncapped(b) == b * 2

\* except Exception: backoff = min(backoff * 2, 300)
NextBackoff(b) == Min(b * 2, MAX_BACKOFF)

\* the state after startup: an empty store, the poll task created
Boot ==
    /\ store = EmptyStore
    /\ chan = <<>>
    /\ pc = "idle"
    /\ resp = NoResp
    /\ pending = NoMsg
    /\ backoff = Base
    /\ fails = 0
    /\ nwrites = 0
    /\ closed = FALSE
    /\ lapsed = {}
    /\ rpc = "idle"
    /\ rIds = {}
    /\ rMissing = {}
    /\ rLapsed = {}
    /\ rRaced = FALSE
    /\ subs = {}
    /\ wpc = [c \in Clients |-> "closed"]
    /\ wsOpen = [c \in Clients |-> FALSE]
    /\ appState = [c \in Clients |-> "CONNECTING"]
    /\ wTs = [c \in Clients |-> NoTs]
    /\ lastTs = [c \in Clients |-> NoTs]
    /\ inbox = [c \in Clients |-> <<>>]
    /\ got = [c \in Clients |-> <<>>]
    /\ wFailed = [c \in Clients |-> FALSE]
    /\ due = [c \in Clients |-> {}]
    /\ wVeh = [c \in Clients |-> NoRead]
    /\ gotVeh = [c \in Clients |-> <<>>]
    /\ lpc = "serving"
    /\ redisClosed = FALSE
    /\ dbClosed = FALSE

\* the operations API at startup: nothing stored but the history h, no
\* request in progress
OpsBoot(h) ==
    /\ active = <<>>
    /\ activeTtl = NoTTL
    /\ history = h
    /\ clock = 0
    /\ passes = 0
    /\ apc = [p \in Actors |-> "idle"]
    /\ aCall = [p \in Actors |-> NoCall]
    /\ aIdx = [p \in Actors |-> 0]
    /\ aRec = [p \in Actors |-> NoRec]
    /\ aRet = [p \in Actors |-> NoRet]
    /\ hres = <<>>
    /\ settled = NoRec
    /\ stale = FALSE
    /\ health = NoCache
    /\ healthTtl = NoTTL
    /\ healthGen = 0
    /\ healthSrc = NoReport
    /\ hpc = [h1 \in Callers |-> "idle"]
    /\ hRep = [h1 \in Callers |-> NoReport]
    /\ hHit = [h1 \in Callers |-> 0]
    /\ elapsed = 0

\* the crowd keys as the given submissions (oldest first) left them; no
\* request in progress
Submitters == {"p1", "p2"}
CrowdBoot(earlier) ==
    /\ crowdReports = CrowdStoreOf(earlier).reports
    /\ crowdRoute = CrowdStoreOf(earlier).route
    /\ crowdVehicle = CrowdStoreOf(earlier).vehicle
    /\ crowdTotal = CrowdStoreOf(earlier).total
    /\ crowdTtl = CrowdStoreOf(earlier).ttl
    /\ sbpc = [p \in Submitters |-> "idle"]
    /\ sbRep = [p \in Submitters |-> NoCrowdReport]
    /\ pulse = NoCrowdReport
    /\ submitted = earlier

\* _stats_loop started, data/stats.jsonl empty
StatsBoot ==
    /\ statsPc = "sleeping"
    /\ statsLines = 0
    /\ statsErrors = 0
    /\ statsCycles = 0

\* no call under study
CalcBoot ==
    /\ fnArgs = NoArgs
    /\ fnRet = NoResult

MoreBoot ==
    /\ CalcBoot
    /\ CrowdBoot(<<>>)
    /\ StatsBoot

\* the backend process: start_background_ingestion with a configured key
Init ==
    /\ loop = "_poll_loop"
    /\ apiKey = TRUE
    /\ delivers = TRUE
    /\ Boot
    /\ OpsBoot(<<>>)
    /\ MoreBoot

\* either poll loop, with or without NTA_API_KEY
InitLoop ==
    /\ loop \in {"_poll_loop", "run_poller"}
    /\ apiKey \in BOOLEAN
    /\ delivers = TRUE
    /\ Boot
    /\ OpsBoot(<<>>)
    /\ MoreBoot

\* the backend process with WebSocket clients; the channel may deliver nothing
InitWS ==
    /\ loop = "_poll_loop"
    /\ apiKey = TRUE
    /\ delivers \in BOOLEAN
    /\ Boot
    /\ OpsBoot(<<>>)
    /\ MoreBoot

\* ------------------------------------------------------- the poll loop

\* a poll that raises without an API key, so that the loop backs off
PollStartNoKeyBacksOff ==
    /\ pc = "idle"
    /\ IF apiKey
       THEN /\ pc' = "fetching"
            /\ UNCHANGED <<backoff, fails>>
       ELSE /\ fails < MaxFails
            /\ pc' = "sleeping"
            /\ backoff' = NextBackoff(backoff)
            /\ fails' = fails + 1
    /\ UNCHANGED <<store, chan, loop, apiKey, resp, pending, nwrites, closed, lapsed>>
    /\ UNCHANGED readerVars
    /\ UNCHANGED <<wsVars, opsVars>>

\* poll(), lines 44-52: without an API key the tick returns at once (the loop
\* resets its backoff and sleeps); otherwise the two GETs are in flight
PollStart ==
    /\ pc = "idle"
    /\ IF apiKey
       THEN /\ pc' = "fetching"
            /\ UNCHANGED <<backoff, fails>>
       ELSE /\ pc' = "sleeping"
            /\ backoff' = Base
            /\ fails' = 0
    /\ UNCHANGED <<store, chan, loop, apiKey, resp, pending, nwrites, closed, lapsed>>
    /\ UNCHANGED readerVars
    /\ UNCHANGED <<wsVars, opsVars>>

\* _fetch_feeds raised (VehiclePositions failed): poll re-raises, the loop's
\* except Exception doubles the backoff
FetchFailed(vp, tu) ==
    /\ pc = "fetching"
    /\ VpRaises(vp)
    /\ fails < MaxFails
    /\ resp' = [vp |-> vp, tu |-> NoOutcome]    \* tu_resp is never looked at
    /\ backoff' = NextBackoff(backoff)
    /\ fails' = fails + 1
    /\ pc' = "sleeping"
    /\ UNCHANGED <<store, chan, loop, apiKey, pending, nwrites, closed, lapsed>>
    /\ UNCHANGED readerVars
    /\ UNCHANGED <<wsVars, opsVars>>

\* a tick that writes whatever was parsed: with no vehicle the pipeline is the
\* fleet:ts command alone, and the empty snapshot awaits publish
FetchedEmptyWrites(vp, tu, vpBody, tuBody) ==
    /\ pc = "fetching"
    /\ ~VpRaises(vp)
    /\ nwrites < MaxWrites
    /\ ParseVehiclePositions(vpBody, ParseTripUpdates(TuBytes(tu, tuBody), {})) = <<>>
    /\ store' = Execute(WritePipeline(<<>>, nwrites + 1), store)
    /\ pending' = [type |-> "snapshot", vehicles |-> <<>>, timestamp |-> nwrites + 1]
    /\ nwrites' = nwrites + 1
    /\ resp' = [vp |-> vp, tu |-> tu]
    /\ pc' = "executed"
    /\ UNCHANGED <<chan, loop, apiKey, backoff, fails, closed, lapsed>>
    /\ UNCHANGED readerVars
    /\ UNCHANGED <<wsVars, opsVars>>

\* _fetch_feeds returned, both feeds parsed to no vehicle: `if self.redis and
\* vehicles` skips the write, poll returns and the loop resets its backoff
FetchedEmpty(vp, tu, vpBody, tuBody) ==
    /\ pc = "fetching"
    /\ ~VpRaises(vp)
    /\ ParseVehiclePositions(vpBody, ParseTripUpdates(TuBytes(tu, tuBody), {})) = <<>>
    /\ resp' = [vp |-> vp, tu |-> tu]
    /\ backoff' = Base
    /\ fails' = 0
    /\ pc' = "sleeping"
    /\ UNCHANGED <<store, chan, loop, apiKey, pending, nwrites, closed, lapsed>>
    /\ UNCHANGED readerVars
    /\ UNCHANGED <<wsVars, opsVars>>

\* _fetch_feeds returned and vehicles were parsed: _write_to_redis queues the
\* pipeline and executes it; the snapshot is built and awaits publish
FetchedWrite(vp, tu, vpBody, tuBody) ==
    /\ pc = "fetching"
    /\ ~VpRaises(vp)
    /\ nwrites < MaxWrites
    /\ LET vehicles == ParseVehiclePositions(vpBody,
                           ParseTripUpdates(TuBytes(tu, tuBody), {}))
           now == nwrites + 1
       IN  /\ vehicles # <<>>
           /\ store' = Execute(WritePipeline(vehicles, now), store)
           /\ pending' = [type |-> "snapshot", vehicles |-> vehicles, timestamp |-> now]
           /\ nwrites' = now
           /\ lapsed' = lapsed \ SeqIds(vehicles)
    /\ resp' = [vp |-> vp, tu |-> tu]
    /\ pc' = "executed"
    /\ rRaced' = (rpc = "ids")
    /\ UNCHANGED <<chan, loop, apiKey, backoff, fails, closed>>
    /\ due' = [c \in Clients |->
                 IF wsOpen[c] /\ wpc[c] # "done" THEN due[c] \cup {nwrites + 1} ELSE due[c]]
    /\ UNCHANGED <<rpc, rIds, rMissing, rLapsed>>
    /\ UNCHANGED <<opsVars, delivers, subs, wpc, wsOpen, appState, wTs, lastTs, inbox, got, wFailed>>

\* redis.publish("busiq:live", snapshot), then poll returns: backoff reset
Publish ==
    /\ pc = "executed"
    /\ chan' = Append(chan, pending.timestamp)
    /\ inbox' = [c \in Clients |->
                   IF delivers /\ c \in subs THEN Append(inbox[c], pending.timestamp)
                   ELSE inbox[c]]
    /\ pending' = NoMsg
    /\ backoff' = Base
    /\ fails' = 0
    /\ pc' = "sleeping"
    /\ UNCHANGED <<store, loop, apiKey, resp, nwrites, closed, lapsed>>
    /\ UNCHANGED readerVars
    /\ UNCHANGED <<opsVars, delivers, subs, wpc, wsOpen, appState, wTs, lastTs, got, wFailed, due>>

\* asyncio.sleep(backoff) returns; key TTLs ran for that long
SleepDone ==
    /\ pc = "sleeping"
    /\ store' = Elapse(store, backoff)
    /\ lapsed' = lapsed \cup (LiveIds(store) \ LiveIds(Elapse(store, backoff)))
    /\ resp' = NoResp
    /\ pc' = "idle"
    /\ UNCHANGED <<chan, loop, apiKey, pending, backoff, fails, nwrites, closed>>
    /\ UNCHANGED readerVars
    /\ UNCHANGED <<wsVars, opsVars>>

\* task.cancel() delivered while poll() is awaited: _poll_loop's except
\* CancelledError closes the client and re-raises; run_poller only re-raises
CancelInPoll ==
    /\ pc \in {"fetching", "executed"}
    /\ closed' = (loop = "_poll_loop")
    /\ pending' = NoMsg
    /\ pc' = "cancelled"
    /\ UNCHANGED <<store, chan, loop, apiKey, resp, backoff, fails, nwrites, lapsed>>
    /\ UNCHANGED readerVars
    /\ UNCHANGED <<wsVars, opsVars>>

\* task.cancel() delivered at `await asyncio.sleep(backoff)`, outside the try
CancelInSleep ==
    /\ pc = "sleeping"
    /\ pc' = "cancelled"
    /\ UNCHANGED <<store, chan, loop, apiKey, resp, pending, backoff, fails, nwrites, closed, lapsed>>
    /\ UNCHANGED readerVars
    /\ UNCHANGED <<wsVars, opsVars>>

\* ingestion main(): finally: await gtfs_rt.close(), after gather ended
MainFinally ==
    /\ loop = "run_poller"
    /\ pc = "cancelled"
    /\ ~closed
    /\ closed' = TRUE
    /\ UNCHANGED <<store, chan, loop, apiKey, pc, resp, pending, backoff, fails, nwrites, lapsed>>
    /\ UNCHANGED readerVars
    /\ UNCHANGED <<wsVars, opsVars>>

\* ------------------------------------------------- get_all_vehicles

\* smembers(FLEET_KEY); an empty fleet returns [] at once
ReadFleet ==
    /\ rpc = "idle"
    /\ rIds' = store.fleet
    /\ rpc' = IF store.fleet = {} THEN "done" ELSE "ids"
    /\ rMissing' = {}
    /\ rLapsed' = {}
    /\ rRaced' = FALSE
    /\ UNCHANGED pollerVars
    /\ UNCHANGED <<wsVars, opsVars>>

\* the hgetall pipeline over the ids read before
ReadHashes ==
    /\ rpc = "ids"
    /\ rMissing' = {i \in rIds : store.hashes[i] = NoHash}
    /\ rLapsed' = {i \in rIds : store.hashes[i] = NoHash /\ i \in lapsed}
    /\ rpc' = "done"
    /\ UNCHANGED <<rIds, rRaced>>
    /\ UNCHANGED pollerVars
    /\ UNCHANGED <<wsVars, opsVars>>

\* get_all_vehicles returns (empty results dropped); the next call may start
ReaderReturn ==
    /\ rpc = "done"
    /\ rpc' = "idle"
    /\ rIds' = {}
    /\ rMissing' = {}
    /\ rLapsed' = {}
    /\ rRaced' = FALSE
    /\ UNCHANGED pollerVars
    /\ UNCHANGED <<wsVars, opsVars>>

\* the bodies that go with an outcome: every response has a content, an
\* exception has none
BodiesOf(outcome, bodies) == IF outcome = TransportError THEN {<<>>} ELSE bodies

\* one step of the poll task, its feeds drawn from vpBodies and the outcomes
\* of its TripUpdates request from tuOutcomes
PollerStep(vpBodies, tuOutcomes) ==
    \/ PollStart
    \/ \E vp \in VpOutcomes, tu \in tuOutcomes : FetchFailed(vp, tu)
    \/ \E vp \in VpOutcomes, tu \in tuOutcomes :
         \E vb \in BodiesOf(vp, vpBodies), tb \in BodiesOf(tu, TuBodies) :
           FetchedEmpty(vp, tu, vb, tb)
    \/ \E vp \in VpOutcomes, tu \in tuOutcomes :
         \E vb \in BodiesOf(vp, vpBodies), tb \in BodiesOf(tu, TuBodies) :
           FetchedWrite(vp, tu, vb, tb)
    \/ Publish
    \/ SleepDone

Cancel ==
    \/ CancelInPoll
    \/ CancelInSleep

\* the poller of the backend process against the store
Next == PollerStep(VpBodies, TuOutcomes)

Spec == Init /\ [][Next]_vars

\* the poller and a concurrent reader of the fleet; vehicles without trips
ReadVpBodies == SeqsUpTo([vehicle_id : VehicleIds, trip_id : {NoTrip}], MaxFeed)

NextRead ==
    \/ PollerStep(ReadVpBodies, {200})
    \/ ReadFleet
    \/ ReadHashes
    \/ ReaderReturn

SpecRead == Init /\ [][NextRead]_vars

\* the poll loops alone, with a one-vehicle feed
LoopVpBodies == {<<>>, <<[vehicle_id |-> "V1", trip_id |-> "T1"]>>}

NextLoop ==
    \/ PollerStep(LoopVpBodies, TuOutcomes)
    \/ Cancel
    \/ MainFinally

SpecLoop == InitLoop /\ [][NextLoop]_vars

\* ------------------------------------------------- api/v1/ws.py

\* ws.send_json / ws.send_text of a snapshot stamped ts: the frame reaches an
\* open client; on a closed one the send raises and the application state
\* becomes DISCONNECTED
SendOk(c) == wsOpen[c]
GotAfterSend(c, ts) == [got EXCEPT ![c] = IF wsOpen[c] THEN Append(@, ts) ELSE @]
GotVehAfterSend(c, read) == [gotVeh EXCEPT ![c] = IF wsOpen[c] THEN Append(@, read) ELSE @]
otherVars == <<engineVars, healthVars, restVars>>
AppStateAfterSend(c) == [appState EXCEPT ![c] = IF wsOpen[c] THEN @ ELSE "DISCONNECTED"]

\* a client connects and ws.accept() completes
WsAccept(c) ==
    /\ wpc[c] = "closed"
    /\ wsOpen' = [wsOpen EXCEPT ![c] = TRUE]
    /\ appState' = [appState EXCEPT ![c] = "CONNECTED"]
    /\ wpc' = [wpc EXCEPT ![c] = "accepted"]
    /\ UNCHANGED <<opsVars, delivers, subs, wTs, lastTs, inbox, got, wFailed, due>>
    /\ UNCHANGED pollerVars
    /\ UNCHANGED readerVars

\* initial snapshot, get_all_vehicles: smembers(FLEET_KEY); an empty fleet
\* returns [] at once.  The store clock tells which poll's keys are read.
WsInitialFleet(c) ==
    /\ wpc[c] = "accepted"
    /\ wVeh' = [wVeh EXCEPT ![c] = [ids |-> nwrites, hashes |-> nwrites]]
    /\ wpc' = [wpc EXCEPT ![c] = IF store.fleet = {} THEN "have_vehicles" ELSE "have_ids"]
    /\ UNCHANGED <<otherVars, gotVeh, delivers, subs, wsOpen, appState, wTs, lastTs, inbox, got,
                   wFailed, due>>
    /\ UNCHANGED pollerVars
    /\ UNCHANGED readerVars

\* initial snapshot: vehicles = await get_all_vehicles(), the pipeline of
\* hgetall
WsInitialVehicles(c) ==
    /\ wpc[c] = "have_ids"
    /\ wVeh' = [wVeh EXCEPT ![c].hashes = nwrites]
    /\ wpc' = [wpc EXCEPT ![c] = "have_vehicles"]
    /\ UNCHANGED <<otherVars, gotVeh, delivers, subs, wsOpen, appState, wTs, lastTs, inbox, got,
                   wFailed, due>>
    /\ UNCHANGED pollerVars
    /\ UNCHANGED readerVars

\* initial snapshot: ts = await get_fleet_timestamp()
WsInitialTs(c) ==
    /\ wpc[c] = "have_vehicles"
    /\ wTs' = [wTs EXCEPT ![c] = store.ts]
    /\ wpc' = [wpc EXCEPT ![c] = "have_ts"]
    /\ UNCHANGED <<opsVars, delivers, subs, wsOpen, appState, lastTs, inbox, got, wFailed, due>>
    /\ UNCHANGED pollerVars
    /\ UNCHANGED readerVars

\* initial snapshot: ws.send_json; an exception is logged and swallowed, the
\* handler goes on to _stream_via_pubsub
WsInitialSend(c) ==
    /\ wpc[c] = "have_ts"
    /\ got' = GotAfterSend(c, wTs[c])
    /\ gotVeh' = GotVehAfterSend(c, wVeh[c])
    /\ appState' = AppStateAfterSend(c)
    /\ wpc' = [wpc EXCEPT ![c] = "subscribing"]
    /\ UNCHANGED <<otherVars, wVeh, delivers, subs, wsOpen, wTs, lastTs, inbox, wFailed, due>>
    /\ UNCHANGED pollerVars
    /\ UNCHANGED readerVars

\* the handler's except branch: _stream_via_polling starts with last_ts = ""
StartPolling(c) ==
    /\ wpc' = [wpc EXCEPT ![c] = "polling"]
    /\ lastTs' = [lastTs EXCEPT ![c] = NoTs]

\* _stream_via_pubsub: pubsub.subscribe(CHANNEL); when it raises, the handler
\* falls back to polling
WsSubscribe(c, ok) ==
    /\ wpc[c] = "subscribing"
    /\ IF ok
       THEN /\ subs' = subs \cup {c}
            /\ wpc' = [wpc EXCEPT ![c] = "streaming"]
            /\ UNCHANGED <<lastTs, wFailed>>
       ELSE /\ wFailed' = [wFailed EXCEPT ![c] = TRUE]
            /\ StartPolling(c)
            /\ UNCHANGED subs
    /\ UNCHANGED <<opsVars, delivers, wsOpen, appState, wTs, inbox, got, due>>
    /\ UNCHANGED pollerVars
    /\ UNCHANGED readerVars

\* _stream_via_pubsub loop, a message arrived: break when the application
\* state is not CONNECTED, else send_text; a failed send is caught and ends
\* the loop
WsForward(c) ==
    /\ wpc[c] = "streaming"
    /\ inbox[c] # <<>>
    /\ inbox' = [inbox EXCEPT ![c] = Tail(@)]
    /\ IF appState[c] # "CONNECTED"
       THEN /\ wpc' = [wpc EXCEPT ![c] = "unsubscribing"]
            /\ UNCHANGED <<got, gotVeh, appState>>
       ELSE /\ got' = GotAfterSend(c, Head(inbox[c]))
            /\ gotVeh' = GotVehAfterSend(c, [ids |-> Head(inbox[c]), hashes |-> Head(inbox[c])])
            /\ appState' = AppStateAfterSend(c)
            /\ wpc' = [wpc EXCEPT ![c] = IF SendOk(c) THEN "streaming" ELSE "unsubscribing"]
    /\ UNCHANGED <<otherVars, wVeh, delivers, subs, wsOpen, wTs, lastTs, wFailed, due>>
    /\ UNCHANGED pollerVars
    /\ UNCHANGED readerVars

\* _stream_via_pubsub loop: pubsub.get_message raises; `except (WebSocketDisconnect,
\* Exception)` logs it and the finally block runs
WsGetMessageRaises(c) ==
    /\ wpc[c] = "streaming"
    /\ wFailed' = [wFailed EXCEPT ![c] = TRUE]
    /\ wpc' = [wpc EXCEPT ![c] = "unsubscribing"]
    /\ UNCHANGED <<opsVars, delivers, subs, wsOpen, appState, wTs, lastTs, inbox, got, due>>
    /\ UNCHANGED pollerVars
    /\ UNCHANGED readerVars

\* _stream_via_pubsub finally: unsubscribe + close, then the function returns
\* and the handler ends; on a failed connection unsubscribe may raise too, and
\* that exception reaches the handler's except branch
WsUnsubscribe(c, ok) ==
    /\ wpc[c] = "unsubscribing"
    /\ ok \/ wFailed[c]
    /\ subs' = subs \ {c}
    /\ inbox' = [inbox EXCEPT ![c] = <<>>]
    /\ IF ok
       THEN /\ wpc' = [wpc EXCEPT ![c] = "done"]
            /\ UNCHANGED lastTs
       ELSE StartPolling(c)
    /\ UNCHANGED <<opsVars, delivers, wsOpen, appState, wTs, got, wFailed, due>>
    /\ UNCHANGED pollerVars
    /\ UNCHANGED readerVars

\* _stream_via_polling, a 5 s tick that finds fleet:ts set and changed
WsPollTick(c) ==
    /\ wpc[c] = "polling"
    /\ store.ts # NoTs
    /\ store.ts # lastTs[c]
    /\ lastTs' = [lastTs EXCEPT ![c] = store.ts]
    /\ wTs' = [wTs EXCEPT ![c] = store.ts]
    /\ wpc' = [wpc EXCEPT ![c] = "poll_vehicles"]
    /\ UNCHANGED <<opsVars, delivers, subs, wsOpen, appState, inbox, got, wFailed, due>>
    /\ UNCHANGED pollerVars
    /\ UNCHANGED readerVars

\* _stream_via_polling, get_all_vehicles: smembers(FLEET_KEY)
WsPollFleet(c) ==
    /\ wpc[c] = "poll_vehicles"
    /\ wVeh' = [wVeh EXCEPT ![c] = [ids |-> nwrites, hashes |-> nwrites]]
    /\ wpc' = [wpc EXCEPT ![c] = IF store.fleet = {} THEN "poll_send" ELSE "poll_hashes"]
    /\ UNCHANGED <<otherVars, gotVeh, delivers, subs, wsOpen, appState, wTs, lastTs, inbox, got,
                   wFailed, due>>
    /\ UNCHANGED pollerVars
    /\ UNCHANGED readerVars

\* _stream_via_polling: vehicles = await get_all_vehicles(), the pipeline of
\* hgetall
WsPollVehicles(c) ==
    /\ wpc[c] = "poll_hashes"
    /\ wVeh' = [wVeh EXCEPT ![c].hashes = nwrites]
    /\ wpc' = [wpc EXCEPT ![c] = "poll_send"]
    /\ UNCHANGED <<otherVars, gotVeh, delivers, subs, wsOpen, appState, wTs, lastTs, inbox, got,
                   wFailed, due>>
    /\ UNCHANGED pollerVars
    /\ UNCHANGED readerVars

\* _stream_via_polling: break when not CONNECTED, else send_json; a failed
\* send is caught and the function returns
WsPollSend(c) ==
    /\ wpc[c] = "poll_send"
    /\ IF appState[c] # "CONNECTED"
       THEN /\ wpc' = [wpc EXCEPT ![c] = "done"]
            /\ UNCHANGED <<got, gotVeh, appState>>
       ELSE /\ got' = GotAfterSend(c, wTs[c])
            /\ gotVeh' = GotVehAfterSend(c, wVeh[c])
            /\ appState' = AppStateAfterSend(c)
            /\ wpc' = [wpc EXCEPT ![c] = IF SendOk(c) THEN "polling" ELSE "done"]
    /\ UNCHANGED <<otherVars, wVeh, delivers, subs, wsOpen, wTs, lastTs, inbox, wFailed, due>>
    /\ UNCHANGED pollerVars
    /\ UNCHANGED readerVars

\* the client goes away
WsDisconnect(c) ==
    /\ wsOpen[c]
    /\ wpc[c] # "done"
    /\ wsOpen' = [wsOpen EXCEPT ![c] = FALSE]
    /\ UNCHANGED <<opsVars, delivers, subs, wpc, appState, wTs, lastTs, inbox, got, wFailed, due>>
    /\ UNCHANGED pollerVars
    /\ UNCHANGED readerVars

\* the steps the handler of client c takes by itself
HandlerStep(c) ==
    \/ WsInitialFleet(c)
    \/ WsInitialVehicles(c)
    \/ WsInitialTs(c)
    \/ WsInitialSend(c)
    \/ \E ok \in BOOLEAN : WsSubscribe(c, ok)
    \/ WsForward(c)
    \/ \E ok \in BOOLEAN : WsUnsubscribe(c, ok)
    \/ WsPollTick(c)
    \/ WsPollFleet(c)
    \/ WsPollVehicles(c)
    \/ WsPollSend(c)

NextWS ==
    \/ PollerStep(LoopVpBodies, {200}) /\ fails' <= WsMaxFails
    \/ \E c \in Clients : WsAccept(c)
    \/ \E c \in Clients : HandlerStep(c)
    \/ \E c \in Clients : WsGetMessageRaises(c)
    \/ \E c \in Clients : WsDisconnect(c)

SpecWS == InitWS /\ [][NextWS]_vars

\* ------------------------------------------------- the intervention engine

\* generate_interventions + _store_interventions, run by GET
\* /ops/interventions (refresh, or an empty active list).  The detectors'
\* outputs are the input; the store is written by one MULTI/EXEC.
Generate(input) ==
    /\ passes < MaxPasses
    /\ LET stored == [Stored[input] EXCEPT
                        !.list = [k \in 1..Len(@) |-> [@[k] EXCEPT !.id = @ + passes * IdStride]]]
       IN  /\ active' = stored.list
           /\ activeTtl' = stored.ttl
    /\ passes' = passes + 1
    /\ stale' = FALSE
    /\ UNCHANGED <<history, clock, apc, aCall, aIdx, aRec, aRet, hres, settled>>
    /\ UNCHANGED healthVars
    /\ UNCHANGED <<pollerVars, readerVars, wsVars, moreVars>>

\* update_intervention up to the first store reply: the body is validated, then
\* action_intervention reads the list (lrange) and looks for the id; on a match
\* it builds the actioned record.  datetime.now() is a fresh reading of the clock.
ActCall(p, intervention_id, action) ==
    /\ apc[p] \in {"idle", "done"}
    /\ settled' = NoRec
    /\ IF ~ValidAction(action)
       THEN /\ aRet' = [aRet EXCEPT ![p] = [http |-> HTTP_OK, kind |-> "bad_action"]]
            /\ apc' = [apc EXCEPT ![p] = "done"]
            /\ UNCHANGED <<clock, aCall, aIdx, aRec>>
       ELSE IF FindId(active, intervention_id) = 0
       THEN /\ aRet' = [aRet EXCEPT ![p] = [http |-> HTTP_OK, kind |-> "not_found"]]
            /\ apc' = [apc EXCEPT ![p] = "done"]
            /\ UNCHANGED <<clock, aCall, aIdx, aRec>>
       ELSE /\ clock < MaxClock
            /\ clock' = clock + 1
            /\ aCall' = [aCall EXCEPT ![p] =
                            [id |-> intervention_id, action |-> action,
                             seen |-> active[FindId(active, intervention_id)].status]]
            /\ aIdx' = [aIdx EXCEPT ![p] = FindId(active, intervention_id)]
            /\ aRec' = [aRec EXCEPT ![p] =
                            [active[FindId(active, intervention_id)] EXCEPT
                                !.status = ActionStatus(action),
                                !.actioned_at = clock + 1]]
            /\ aRet' = [aRet EXCEPT ![p] = NoRet]
            /\ apc' = [apc EXCEPT ![p] = "lset"]
    /\ UNCHANGED <<active, activeTtl, history, passes, hres, stale>>
    /\ UNCHANGED healthVars
    /\ UNCHANGED <<pollerVars, readerVars, wsVars, moreVars>>

\* await r.lset(INTERVENTIONS_KEY, i, ...): on a missing key or an index past
\* the end the store answers with an error, which leaves the handler as an
\* exception
ActLset(p) ==
    /\ apc[p] = "lset"
    /\ settled' = NoRec
    /\ IF aIdx[p] <= Len(active)
       THEN /\ active' = [active EXCEPT ![aIdx[p]] = aRec[p]]
            /\ stale' = (stale \/ active[aIdx[p]].id # aRec[p].id)
            /\ apc' = [apc EXCEPT ![p] = "lpush"]
            /\ UNCHANGED <<aCall, aIdx, aRec, aRet>>
       ELSE /\ aRet' = [aRet EXCEPT ![p] =
                            [http |-> HTTP_SERVER_ERROR, kind |-> "exception"]]
            /\ apc' = [apc EXCEPT ![p] = "done"]
            /\ aCall' = [aCall EXCEPT ![p] = NoCall]
            /\ aIdx' = [aIdx EXCEPT ![p] = 0]
            /\ aRec' = [aRec EXCEPT ![p] = NoRec]
            /\ UNCHANGED <<active, stale>>
    /\ UNCHANGED <<activeTtl, history, clock, passes, hres>>
    /\ UNCHANGED healthVars
    /\ UNCHANGED <<pollerVars, readerVars, wsVars, moreVars>>

\* await r.lpush(INTERVENTIONS_HISTORY_KEY, ...)
ActLpush(p) ==
    /\ apc[p] = "lpush"
    /\ history' = <<aRec[p]>> \o history
    /\ settled' = NoRec
    /\ hres' = <<>>
    /\ apc' = [apc EXCEPT ![p] = "ltrim"]
    /\ UNCHANGED <<active, activeTtl, clock, passes, aCall, aIdx, aRec, aRet, stale>>
    /\ UNCHANGED healthVars
    /\ UNCHANGED <<pollerVars, readerVars, wsVars, moreVars>>

\* await r.ltrim(INTERVENTIONS_HISTORY_KEY, 0, 199); return intv, which the
\* endpoint wraps as {"data": result, ...}
ActLtrim(p) ==
    /\ apc[p] = "ltrim"
    /\ history' = Ltrim(history)
    /\ aRet' = [aRet EXCEPT ![p] = [http |-> HTTP_OK, kind |-> "data"]]
    /\ settled' = aRec[p]
    /\ apc' = [apc EXCEPT ![p] = "done"]
    /\ aIdx' = [aIdx EXCEPT ![p] = 0]
    /\ aRec' = [aRec EXCEPT ![p] = NoRec]
    /\ aCall' = [aCall EXCEPT ![p] = NoCall]
    /\ hres' = <<>>
    /\ UNCHANGED <<active, activeTtl, clock, passes, stale>>
    /\ UNCHANGED healthVars
    /\ UNCHANGED <<pollerVars, readerVars, wsVars, moreVars>>

\* get_intervention_history(limit) behind GET /ops/interventions/history
HistRead(limit) ==
    /\ hres' = HistoryRange(history, limit)
    /\ UNCHANGED <<active, activeTtl, history, clock, passes, apc, aCall, aIdx, aRec,
                   aRet, settled, stale>>
    /\ UNCHANGED healthVars
    /\ UNCHANGED <<pollerVars, readerVars, wsVars, moreVars>>

\* the ids a request may name: those of the first MaxTarget active elements and
\* one that was never issued
TargetIds == {active[k].id : k \in 1..Min(MaxTarget, Len(active))} \cup {NoSuchId}

ActorStep(p, actions) ==
    \/ \E id \in TargetIds, action \in actions : ActCall(p, id, action)
    \/ ActLset(p)
    \/ ActLpush(p)
    \/ ActLtrim(p)

\* -------------------------------------------------------- network health

\* calculate_network_health up to the reply of GET health:latest: a cached
\* text is loaded and returned; otherwise the data is gathered next
HealthCall(h) ==
    /\ hpc[h] \in {"idle", "done"}
    /\ IF health # NoCache
       THEN /\ hpc' = [hpc EXCEPT ![h] = "done"]
            /\ hRep' = [hRep EXCEPT ![h] = LoadReport(health)]
            /\ hHit' = [hHit EXCEPT ![h] = healthGen]
       ELSE /\ hpc' = [hpc EXCEPT ![h] = "gather"]
            /\ hRep' = [hRep EXCEPT ![h] = NoReport]
            /\ hHit' = [hHit EXCEPT ![h] = 0]
    /\ UNCHANGED <<health, healthTtl, healthGen, healthSrc, elapsed>>
    /\ UNCHANGED engineVars
    /\ UNCHANGED <<pollerVars, readerVars, wsVars, moreVars>>

\* lines 143-148: the snapshot and the detectors are read, then now is taken
HealthGather(h, vehicles) ==
    /\ hpc[h] = "gather"
    /\ clock < MaxClock
    /\ clock' = clock + 1
    /\ hRep' = [hRep EXCEPT ![h] =
                    [total_live_vehicles |-> Len(vehicles),
                     total_routes_active |-> Len(RouteGroups(vehicles)),
                     interventions_pending |-> 0,
                     generated_at |-> clock + 1]]
    /\ hpc' = [hpc EXCEPT ![h] = "count"]
    /\ UNCHANGED <<health, healthTtl, healthGen, healthSrc, hHit, elapsed>>
    /\ UNCHANGED <<active, activeTtl, history, passes, apc, aCall, aIdx, aRec, aRet,
                   hres, settled, stale>>
    /\ UNCHANGED <<pollerVars, readerVars, wsVars, moreVars>>

\* lines 295-298: get_active_interventions, the pending ones counted
HealthCount(h) ==
    /\ hpc[h] = "count"
    /\ hRep' = [hRep EXCEPT ![h].interventions_pending = PendingCount(active)]
    /\ hpc' = [hpc EXCEPT ![h] = "set"]
    /\ UNCHANGED <<health, healthTtl, healthGen, healthSrc, hHit, elapsed>>
    /\ UNCHANGED engineVars
    /\ UNCHANGED <<pollerVars, readerVars, wsVars, moreVars>>

\* line 315: r.set(HEALTH_CACHE_KEY, json.dumps(report.to_dict()), ex=30)
HealthStore(h) ==
    /\ hpc[h] = "set"
    /\ health' = DumpReport(hRep[h])
    /\ healthTtl' = HEALTH_CACHE_TTL
    /\ healthGen' = healthGen + 1
    /\ healthSrc' = hRep[h]
    /\ hpc' = [hpc EXCEPT ![h] = "done"]
    /\ UNCHANGED <<hRep, hHit, elapsed>>
    /\ UNCHANGED engineVars
    /\ UNCHANGED <<pollerVars, readerVars, wsVars, moreVars>>

CallerStep(h) ==
    \/ HealthCall(h)
    \/ \E vehicles \in {FleetNone, FleetPair} : HealthGather(h, vehicles)
    \/ HealthCount(h)
    \/ HealthStore(h)

\* secs seconds pass: a key whose TTL runs out is removed, each key by its own
\* TTL
TimePasses(secs) ==
    /\ elapsed < MaxElapsed
    /\ elapsed' = elapsed + 1
    /\ IF healthTtl # NoTTL /\ healthTtl <= secs
       THEN /\ health' = NoCache
            /\ healthTtl' = NoTTL
       ELSE /\ health' = health
            /\ healthTtl' = IF healthTtl = NoTTL THEN NoTTL ELSE healthTtl - secs
    /\ IF activeTtl # NoTTL /\ activeTtl <= secs
       THEN /\ active' = <<>>
            /\ activeTtl' = NoTTL
       ELSE /\ active' = active
            /\ activeTtl' = IF activeTtl = NoTTL THEN NoTTL ELSE activeTtl - secs
    /\ UNCHANGED <<healthGen, healthSrc, hpc, hRep, hHit>>
    /\ UNCHANGED <<history, clock, passes, apc, aCall, aIdx, aRec, aRet, hres, settled,
                   stale>>
    /\ UNCHANGED <<pollerVars, readerVars, wsVars, moreVars>>

\* ------------------------------------------------------- specifications

\* the operations API: generation passes, two concurrent action requests and
\* history reads
NextOps ==
    \/ \E input \in GenInputs : Generate(input)
    \/ /\ \E p \in Actors : ActorStep(p, Actions)
       /\ clock' <= OpsMaxClock
    \/ \E limit \in HistLimits : HistRead(limit)

SpecOps == Init /\ [][NextOps]_vars

\* the same API on a history that earlier actions have filled up to the cap
InitHist ==
    /\ loop = "_poll_loop"
    /\ apiKey = TRUE
    /\ delivers = TRUE
    /\ Boot
    /\ \E n \in {HISTORY_KEEP - 1, HISTORY_KEEP} : OpsBoot(EarlierHistory(n))
    /\ MoreBoot

HistInputs == {[vehicles |-> FleetPair, ghosts |-> GhostsNone, crowding |-> CrowdNone]}

NextHist ==
    \/ \E input \in HistInputs : Generate(input)
    \/ \E p \in Actors : ActorStep(p, {"approve"})
    \/ \E limit \in {1, HISTORY_KEEP} : HistRead(limit)

SpecHist == InitHist /\ [][NextHist]_vars

\* GET /ops/health, called by two clients while passes, actions and time go on
HealthInputs == {[vehicles |-> FleetPair, ghosts |-> GhostsNone, crowding |-> CrowdNone]}

NextHealth ==
    \/ \E h \in Callers : CallerStep(h)
    \/ /\ \E input \in HealthInputs : Generate(input)
       /\ passes' <= HealthMaxPasses
    \/ ActorStep("a1", {"approve"})
    \/ \E secs \in {POLL_INTERVAL, INTERVENTION_TTL} : TimePasses(secs)

SpecHealth == Init /\ [][NextHealth]_vars


\* ------------------------------------------------- detectors and generators

\* every part of the program at rest but the call under study, whose
\* arguments are drawn from inputs
InitCall(inputs) ==
    /\ loop = "_poll_loop"
    /\ apiKey = TRUE
    /\ delivers = TRUE
    /\ Boot
    /\ OpsBoot(<<>>)
    /\ CrowdBoot(<<>>)
    /\ StatsBoot
    /\ fnArgs \in inputs
    /\ fnRet = NoResult

RestUnchanged == UNCHANGED <<pollerVars, readerVars, wsVars, engineVars, healthVars,
                             crowdVars, statsVars>>

\* bunching = await detect_bunching(), over the fleet get_all_vehicles returns
DetectBunchingCall ==
    /\ ~fnRet.done
    /\ fnRet' = Returned([bunching |-> DetectBunching(fnArgs)])
    /\ UNCHANGED fnArgs
    /\ RestUnchanged

\* all_interventions.extend(_generate_hold_interventions(bunching))
GenerateHoldCall ==
    /\ fnRet.done
    /\ DOMAIN fnRet.value = {"bunching"}
    /\ fnRet' = Returned([bunching |-> fnRet.value.bunching,
                          holds |-> GenerateHold(fnRet.value.bunching)])
    /\ UNCHANGED fnArgs
    /\ RestUnchanged

NextBunch ==
    \/ DetectBunchingCall
    \/ GenerateHoldCall

SpecBunch == InitCall(BunchFleets) /\ [][NextBunch]_vars

\* calculate_network_health, lines 151-238, on the gathered data
CompositeScoreCall ==
    /\ ~fnRet.done
    /\ \E ups \in [1..5 -> {0, 1}] : fnRet' = Returned(CompositeScore(fnArgs, ups))
    /\ UNCHANGED fnArgs
    /\ RestUnchanged

SpecScore == InitCall(ScoreInputs) /\ [][CompositeScoreCall]_vars

\* ghosts = await detect_ghost_buses()
DetectGhostBusesCall ==
    /\ ~fnRet.done
    /\ fnRet' = Returned(DetectGhostBuses(fnArgs.vehicles, fnArgs.route_ids))
    /\ UNCHANGED fnArgs
    /\ RestUnchanged

SpecGhost == InitCall(GhostInputs) /\ [][DetectGhostBusesCall]_vars

\* generate_interventions, lines 409-411: the three detectors one after the
\* other, each over what it reads
GhostsAwait ==
    /\ ~fnRet.done
    /\ fnRet' = Returned([ghosts |-> DetectGhostBuses(fnArgs.vehicles, fnArgs.route_ids)])
    /\ UNCHANGED fnArgs
    /\ RestUnchanged

BunchingAwait ==
    /\ fnRet.done
    /\ DOMAIN fnRet.value = {"ghosts"}
    /\ fnRet' = Returned([ghosts |-> fnRet.value.ghosts,
                          bunching |-> DetectBunching(fnArgs.vehicles)])
    /\ UNCHANGED fnArgs
    /\ RestUnchanged

CrowdingAwait ==
    /\ fnRet.done
    /\ DOMAIN fnRet.value = {"ghosts", "bunching"}
    /\ fnRet' = Returned([ghosts |-> fnRet.value.ghosts,
                          bunching |-> fnRet.value.bunching,
                          crowding |-> GetCrowdingSnapshot(fnArgs.crowd.list,
                                                           fnArgs.crowd.total)])
    /\ UNCHANGED fnArgs
    /\ RestUnchanged

NextDetectors ==
    \/ GhostsAwait
    \/ BunchingAwait
    \/ CrowdingAwait

SpecDetectors == InitCall(DetectorInputs) /\ [][NextDetectors]_vars

\* --------------------------------------------------- crowd report requests
\* submit_crowd_report up to the pipeline: the report is built at the instant
\* of the call, here the number of reports built before it
SubmitBuild(p, report) ==
    /\ sbpc[p] = "idle"
    /\ LET now == Len(submitted) + Cardinality({q \in Submitters : sbpc[q] = "execute"})
       IN  sbRep' = [sbRep EXCEPT ![p] = StoredCrowdReport(report, now)]
    /\ sbpc' = [sbpc EXCEPT ![p] = "execute"]
    /\ UNCHANGED <<crowdReports, crowdRoute, crowdVehicle, crowdTotal, crowdTtl, pulse,
                   submitted>>
    /\ UNCHANGED <<pollerVars, readerVars, wsVars, engineVars, healthVars, calcVars, statsVars>>

\* await pipe.execute(): lpush / ltrim / expire on the global and the route
\* list, set with ex on the vehicle key, incr -- one MULTI/EXEC
SubmitExecute(p) ==
    /\ sbpc[p] = "execute"
    /\ LET report_json == sbRep[p]
           route_id == report_json.route_id
           vehicle_id == report_json.vehicle_id
       IN  /\ crowdReports' = PushTrim(crowdReports, report_json, REPORTS_KEEP)
           /\ crowdRoute' = [crowdRoute EXCEPT ![route_id] =
                                PushTrim(crowdRoute[route_id], report_json,
                                         ROUTE_REPORTS_KEEP)]
           /\ crowdVehicle' = [crowdVehicle EXCEPT ![vehicle_id] = report_json]
           /\ crowdTtl' = [crowdTtl EXCEPT !.reports = REPORT_TTL,
                                           !.route[route_id] = REPORT_TTL,
                                           !.vehicle[vehicle_id] = REPORT_TTL]
           /\ crowdTotal' = crowdTotal + 1
           /\ submitted' = Append(submitted, report_json)
    /\ sbpc' = [sbpc EXCEPT ![p] = "publish"]
    /\ UNCHANGED <<sbRep, pulse>>
    /\ UNCHANGED <<pollerVars, readerVars, wsVars, engineVars, healthVars, calcVars, statsVars>>

\* await r.publish(CHANNEL, pulse_msg); return stored
SubmitPublish(p) ==
    /\ sbpc[p] = "publish"
    /\ pulse' = sbRep[p]
    /\ sbpc' = [sbpc EXCEPT ![p] = "idle"]
    /\ UNCHANGED <<crowdReports, crowdRoute, crowdVehicle, crowdTotal, crowdTtl, sbRep,
                   submitted>>
    /\ UNCHANGED <<pollerVars, readerVars, wsVars, engineVars, healthVars, calcVars, statsVars>>

\* the store empty or an hour of reports in it; two concurrent submitters
InitCrowd ==
    /\ loop = "_poll_loop"
    /\ apiKey = TRUE
    /\ delivers = TRUE
    /\ Boot
    /\ OpsBoot(<<>>)
    /\ CalcBoot
    /\ StatsBoot
    /\ \E earlier \in {<<>>, EarlierReports} : CrowdBoot(earlier)

\* the reports built since Init: those executed since (the earlier ones, if
\* any, are Len(EarlierReports) many) and those waiting for their pipeline
SubmitsSoFar ==
    (IF Len(submitted) >= Len(EarlierReports)
     THEN Len(submitted) - Len(EarlierReports) ELSE Len(submitted))
        + Cardinality({q \in Submitters : sbpc[q] = "execute"})

NextCrowd ==
    \/ \E p \in Submitters, report \in CrowdBodies :
            SubmitsSoFar < MaxSubmits /\ SubmitBuild(p, report)
    \/ \E p \in Submitters : SubmitExecute(p)
    \/ \E p \in Submitters : SubmitPublish(p)

SpecCrowd == InitCrowd /\ [][NextCrowd]_vars

\* generate_interventions as one pass over the crowd store: the snapshot, the
\* three generators, the sort, the cap and the store
GeneratePassCall ==
    /\ ~fnRet.done
    /\ passes < MaxPasses
    /\ LET crowding == GetCrowdingSnapshot(crowdReports, crowdTotal)
           holds == HoldsOfFleet[fnArgs.vehicles]
           deploys == GenerateDeploy(fnArgs.ghosts)
           surges == GenerateSurge(crowding.route_summaries)
           returned == RankAndCap(holds, deploys, surges, passes + 1)
           stored == StoreInterventions(returned)
       IN  /\ fnRet' = Returned([crowding |-> crowding, holds |-> holds, deploys |-> deploys,
                                 surges |-> surges, active |-> returned])
           /\ active' = stored.list
           /\ activeTtl' = stored.ttl
    /\ passes' = passes + 1
    /\ stale' = FALSE
    /\ UNCHANGED <<history, clock, apc, aCall, aIdx, aRec, aRet, hres, settled>>
    /\ UNCHANGED <<fnArgs, pollerVars, readerVars, wsVars, healthVars, crowdVars, statsVars>>

InitSurge ==
    /\ loop = "_poll_loop"
    /\ apiKey = TRUE
    /\ delivers = TRUE
    /\ Boot
    /\ OpsBoot(<<>>)
    /\ StatsBoot
    /\ \E sent \in SurgeSubmissions : CrowdBoot(sent)
    /\ fnArgs \in SurgeFleets
    /\ fnRet = NoResult

SpecSurge == InitSurge /\ [][GeneratePassCall]_vars

\* all_interventions.extend(_generate_deploy_interventions(ghosts))
GenerateDeployCall ==
    /\ ~fnRet.done
    /\ fnRet' = Returned([deploys |-> GenerateDeploy(fnArgs)])
    /\ UNCHANGED fnArgs
    /\ RestUnchanged

SpecDeploy == InitCall(DeployReports) /\ [][GenerateDeployCall]_vars

InitRank ==
    /\ loop = "_poll_loop"
    /\ apiKey = TRUE
    /\ delivers = TRUE
    /\ Boot
    /\ OpsBoot(<<>>)
    /\ StatsBoot
    /\ \E sent \in RankSubmissions : CrowdBoot(sent)
    /\ fnArgs \in RankFleets
    /\ fnRet = NoResult

SpecRank == InitRank /\ [][GeneratePassCall]_vars

\* poll, the two parsers: delay_map = _parse_trip_updates(tu_data); vehicles =
\* _parse_vehicle_positions(vp_data, delay_map)
ParseCall ==
    /\ ~fnRet.done
    /\ fnRet' = Returned([vehicles |->
                    ParseVehiclePositions(fnArgs.vp, ParseTripUpdates(fnArgs.tu, {}))])
    /\ UNCHANGED fnArgs
    /\ RestUnchanged

SpecParse == InitCall(ParseInputs) /\ [][ParseCall]_vars

\* ------------------------------------------------------- the stats loop
MaxCycles == 2

\* _stats_loop: sleep(COLLECTION_INTERVAL) is over and collect_stats_snapshot
\* reads the fleet (the hashes that get_all_vehicles finds); an empty fleet
\* returns {} and the loop sleeps again without writing
StatsWake ==
    /\ statsPc = "sleeping"
    /\ statsCycles < MaxCycles
    /\ LET vehicles == {i \in store.fleet : store.hashes[i] # NoHash}
       IN  IF vehicles = {}
           THEN UNCHANGED <<statsPc, statsCycles>>
           ELSE /\ statsPc' = "collecting"
                /\ statsCycles' = statsCycles + 1
    /\ UNCHANGED <<statsLines, statsErrors>>
    /\ UNCHANGED <<pollerVars, readerVars, wsVars, engineVars, healthVars, calcVars, crowdVars>>

\* collect_stats_snapshot from the ghost detection on: the report's attributes
\* are read; an AttributeError leaves through _stats_loop's except Exception,
\* which logs it; otherwise the snapshot is appended as one line
StatsCollect ==
    /\ statsPc = "collecting"
    /\ IF Raises(StatsReads)
       THEN /\ statsErrors' = statsErrors + 1
            /\ UNCHANGED statsLines
       ELSE /\ statsLines' = statsLines + 1
            /\ UNCHANGED statsErrors
    /\ statsPc' = "sleeping"
    /\ UNCHANGED statsCycles
    /\ UNCHANGED <<pollerVars, readerVars, wsVars, engineVars, healthVars, calcVars, crowdVars>>

\* the backend process: the poller and the stats collector
NextStats ==
    \/ PollerStep(LoopVpBodies, {200})
    \/ StatsWake
    \/ StatsCollect

SpecStats == Init /\ [][NextStats]_vars

\* ------------------------------------------------------- shutdown
\* lifespan after `yield`: ingestion_task.cancel(); stats_task.cancel()
LifespanShutdown ==
    /\ lpc = "serving"
    /\ lpc' = "await_ingestion"
    /\ UNCHANGED <<redisClosed, dbClosed>>
    /\ UNCHANGED <<pollerVars, readerVars, engineVars, healthVars, calcVars, crowdVars,
                   statsVars>>
    /\ UNCHANGED <<delivers, subs, wpc, wsOpen, appState, wTs, lastTs, inbox, got, wFailed, due,
                   snapVars>>

\* the cancellation reaches _stats_loop at one of its awaits: CancelledError
\* is no Exception, `except Exception` lets it through and the task ends
StatsCancelled ==
    /\ lpc # "serving"
    /\ statsPc \in {"sleeping", "collecting"}
    /\ statsPc' = "cancelled"
    /\ UNCHANGED <<statsLines, statsErrors, statsCycles>>
    /\ UNCHANGED <<pollerVars, readerVars, wsVars, engineVars, healthVars, calcVars, crowdVars>>

\* the cancellation reaches _poll_loop inside poll() and poller.close()
\* raises: the task ends with that exception instead of the CancelledError
CancelCloseRaises ==
    /\ lpc = "await_ingestion"
    /\ loop = "_poll_loop"
    /\ pc \in {"fetching", "executed"}
    /\ pending' = NoMsg
    /\ pc' = "failed"
    /\ UNCHANGED <<store, chan, loop, apiKey, resp, backoff, fails, nwrites, closed, lapsed>>
    /\ UNCHANGED readerVars
    /\ UNCHANGED <<wsVars, opsVars>>

\* try: await ingestion_task / except Exception: pass -- the task has ended;
\* a CancelledError is a BaseException and leaves the handler
LifespanAwait ==
    /\ lpc = "await_ingestion"
    /\ pc \in {"cancelled", "failed"}
    /\ lpc' = IF pc = "failed" THEN "close_redis" ELSE "raised"
    /\ UNCHANGED <<redisClosed, dbClosed>>
    /\ UNCHANGED <<pollerVars, readerVars, engineVars, healthVars, calcVars, crowdVars,
                   statsVars>>
    /\ UNCHANGED <<delivers, subs, wpc, wsOpen, appState, wTs, lastTs, inbox, got, wFailed, due,
                   snapVars>>

\* await close_redis()
LifespanCloseRedis ==
    /\ lpc = "close_redis"
    /\ redisClosed' = TRUE
    /\ lpc' = "close_db"
    /\ UNCHANGED dbClosed
    /\ UNCHANGED <<pollerVars, readerVars, engineVars, healthVars, calcVars, crowdVars,
                   statsVars>>
    /\ UNCHANGED <<delivers, subs, wpc, wsOpen, appState, wTs, lastTs, inbox, got, wFailed, due,
                   snapVars>>

\* await close_db()
LifespanCloseDb ==
    /\ lpc = "close_db"
    /\ dbClosed' = TRUE
    /\ lpc' = "done"
    /\ UNCHANGED redisClosed
    /\ UNCHANGED <<pollerVars, readerVars, engineVars, healthVars, calcVars, crowdVars,
                   statsVars>>
    /\ UNCHANGED <<delivers, subs, wpc, wsOpen, appState, wTs, lastTs, inbox, got, wFailed, due,
                   snapVars>>

\* the backend process from startup to the end of its lifespan handler: the
\* two tasks run until the cancellation reaches them at an await
NextShutdown ==
    \/ (lpc = "serving" \/ pc = "idle") /\ PollerStep(LoopVpBodies, {200})
    \/ lpc = "serving" /\ StatsWake
    \/ lpc = "serving" /\ StatsCollect
    \/ LifespanShutdown
    \/ lpc = "await_ingestion" /\ Cancel
    \/ CancelCloseRaises
    \/ StatsCancelled
    \/ LifespanAwait
    \/ LifespanCloseRedis
    \/ LifespanCloseDb

InitShutdown ==
    /\ loop = "_poll_loop"
    /\ apiKey \in BOOLEAN
    /\ delivers = TRUE
    /\ Boot
    /\ OpsBoot(<<>>)
    /\ MoreBoot

SpecShutdown == InitShutdown /\ [][NextShutdown]_vars

\* ================================================================ claims

OkStatus(o) == o \in 200..299
RECURSIVE Pow2(_)
Pow2(k) == IF k = 0 THEN 1 ELSE 2 * Pow2(k - 1)
NonEmptyIdCount(vehicles) ==
    Cardinality({k \in 1..Len(vehicles) : vehicles[k].vehicle_id # ""})

\* C1: whatever poll pipelines run between a reader's read of fleet and its read
\* of the hashes, every id it got from fleet has a non-empty hash when read,
\* unless that hash was removed by its 120 s TTL.
C1_ReaderFindsHashes ==
    rpc = "done" => rMissing \subseteq rLapsed

\* C1 witness: a pipeline ran between the two reads, it changed the fleet, and
\* the reader still found every hash.
C1_Witness ==
    /\ rpc = "done"
    /\ rRaced
    /\ rIds # {}
    /\ rIds # store.fleet
    /\ rMissing = {}

\* C2 as claimed: right after a poll's pipeline the fleet set equals the set of
\* ids with a live hash.
C2_FleetEqualsLive ==
    pc = "executed" => store.fleet = LiveIds(store)

\* C2 amended: right after a poll's pipeline every fleet member has a live hash
\* with a fresh 120 s TTL; a live hash outside fleet is one left to its TTL.
C2_FleetWithinLive ==
    pc = "executed" =>
        /\ store.fleet \subseteq LiveIds(store)
        /\ \A i \in store.fleet : store.ttl[i] = VEHICLE_TTL
        /\ \A i \in LiveIds(store) \ store.fleet : store.ttl[i] \in 1..(VEHICLE_TTL - 1)

\* C2 witness: a vehicle of an earlier poll, absent from the latest feed, still
\* has a live hash outside fleet.
C2_Witness ==
    /\ pc = "executed"
    /\ store.fleet = {"V1"}
    /\ store.hashes["V2"] # NoHash

\* C3 as claimed: after a tick's pipeline, |fleet| is the number of parsed
\* vehicles with a non-empty id and each of those ids has its hash.
C3_FleetCountsNonEmptyIds ==
    pc = "executed" =>
        /\ Cardinality(store.fleet) = NonEmptyIdCount(pending.vehicles)
        /\ \A k \in 1..Len(pending.vehicles) :
             pending.vehicles[k].vehicle_id # ""
                => store.hashes[pending.vehicles[k].vehicle_id] # NoHash

\* C3 amended: after the pipeline of a tick that parsed at least one vehicle,
\* fleet is exactly the set of distinct parsed vehicle ids, the empty id
\* included, and each of them has its hash, written by that pipeline.
C3_FleetIsParsedIds ==
    pc = "executed" =>
        /\ pending.vehicles # <<>>
        /\ store.fleet = SeqIds(pending.vehicles)
        /\ \A i \in store.fleet :
             /\ store.hashes[i] # NoHash
             /\ store.hashes[i].vehicle_id = i
             /\ store.ttl[i] = VEHICLE_TTL
        /\ store.ts = pending.timestamp

\* C3 witness: a feed of two vehicles with the same empty id is written.
C3_Witness ==
    /\ pc = "executed"
    /\ Len(pending.vehicles) = 2
    /\ SeqIds(pending.vehicles) = {""}
    /\ store.fleet = {""}

\* the fetch step of a tick whose VehiclePositions succeeded and whose
\* TripUpdates did not return 200
TuFailedStep ==
    /\ pc = "fetching"
    /\ OkStatus(resp'.vp)
    /\ resp'.tu # 200

\* C4 as claimed: such a tick always writes: delay 0 for every vehicle, fleet
\* rebuilt, fleet:ts updated, the snapshot published, the loop at its base.
C4_TuFailureAlwaysWrites ==
    [][TuFailedStep => (pc' = "executed" /\ store'.ts # store.ts)]_vars

\* C4 amended: such a tick never raises; when it parsed at least one vehicle it
\* writes each with delay_seconds = 0, rebuilds fleet, updates fleet:ts and then
\* publishes; when it parsed none it writes and publishes nothing; either way
\* the loop resets its backoff.
C4_TuFailureIsBestEffort ==
    /\ [][TuFailedStep =>
            \/ /\ pc' = "executed"
               /\ pending'.vehicles # <<>>
               /\ \A k \in 1..Len(pending'.vehicles) :
                    /\ pending'.vehicles[k].delay_seconds = 0
                    /\ store'.hashes[pending'.vehicles[k].vehicle_id].delay_seconds = 0
               /\ store'.fleet = SeqIds(pending'.vehicles)
               /\ store'.ts = pending'.timestamp
               /\ store'.ts # store.ts
               /\ fails' = fails
            \/ /\ pc' = "sleeping"
               /\ store' = store
               /\ chan' = chan
               /\ backoff' = Base
               /\ fails' = 0 ]_vars
    /\ [][(pc = "executed" /\ resp.tu # 200) =>
            /\ pc' = "sleeping"
            /\ chan' = Append(chan, store.ts)
            /\ backoff' = Base
            /\ fails' = 0 ]_vars

\* C4 witness: TripUpdates answered 429 and a vehicle running trip T1 was
\* written with delay 0.
C4_Witness ==
    /\ pc = "executed"
    /\ resp.tu = 429
    /\ OkStatus(resp.vp)
    /\ \E k \in 1..Len(pending.vehicles) :
         /\ pending.vehicles[k].vehicle_id = "V1"
         /\ pending.vehicles[k].trip_id = "T1"
    /\ store.hashes["V1"].delay_seconds = 0
    /\ store.fleet = SeqIds(pending.vehicles)

\* C5: a tick whose VehiclePositions request failed (exception, 429, non-2xx)
\* raises to the loop (the backoff doubles) and leaves the store and the channel
\* as they were.
C5_VpFailureLeavesStore ==
    [][(pc = "fetching" /\ resp'.vp # NoOutcome /\ ~OkStatus(resp'.vp)) =>
            /\ store' = store
            /\ chan' = chan
            /\ pending' = NoMsg
            /\ pc' = "sleeping"
            /\ fails' = fails + 1
            /\ backoff' = Min(backoff * 2, MAX_BACKOFF) ]_vars

\* C5 witness: a tick failed with 429 after an earlier tick had written a fleet.
C5_Witness ==
    /\ pc = "sleeping"
    /\ resp.vp = 429
    /\ fails = 1
    /\ store.fleet # {}
    /\ store.ts # NoTs

\* C6: the sleep is the base interval after a success and min(base * 2^k, 300)
\* after k consecutive failures, always within [base, 300].
C6_BackoffSchedule ==
    /\ Base <= backoff
    /\ backoff <= MAX_BACKOFF
    /\ backoff = (IF fails = 0 THEN Base ELSE Min(Base * Pow2(fails), MAX_BACKOFF))

\* C6 witness: the delay saturated at 300 and stayed there on the next failure.
C6_Witness ==
    /\ pc = "sleeping"
    /\ fails = MaxFails
    /\ Base * Pow2(fails - 1) > MAX_BACKOFF
    /\ backoff = MAX_BACKOFF

\* C7 as claimed: once the _poll_loop task has ended by cancellation, the
\* poller's HTTP client is closed.
C7_CancelClosesClient ==
    (loop = "_poll_loop" /\ pc = "cancelled") => closed

Count(seq, t) == Cardinality({k \in 1..Len(seq) : seq[k] = t})

\* client c streams over pub/sub and nothing is on its way to it: its inbox is
\* empty and the poller has published all it wrote
Settled(c) ==
    /\ delivers
    /\ wsOpen[c]
    /\ wpc[c] = "streaming"
    /\ inbox[c] = <<>>
    /\ pc = "sleeping"

\* C8 as claimed: a client connected when a poll wrote fleet:ts = t, and still
\* connected, receives the snapshot stamped t exactly once: never twice, and
\* once nothing more is on its way to it, it has it.
C8_EachPollOnce ==
    \A c \in Clients : \A t \in due[c] :
        /\ Count(got[c], t) <= 1
        /\ Settled(c) => Count(got[c], t) = 1

\* C9 as claimed: after a pub/sub call raised in the handler of a client that
\* is still connected, the handler is on its way to, or in, the polling loop.
C9_FailureStartsPolling ==
    \A c \in Clients :
        (wFailed[c] /\ wsOpen[c])
            => wpc[c] \in {"unsubscribing", "polling", "poll_vehicles", "poll_hashes", "poll_send"}

\* C10 as claimed: the loop of a client that disconnected ends by itself: as
\* long as it has not ended, its handler has a step to take, whatever the
\* poller does; and a handler that ended is not subscribed.
C10_DisconnectEndsLoop ==
    \A c \in Clients :
        /\ (~wsOpen[c] /\ wpc[c] \notin {"closed", "done"}) => ENABLED HandlerStep(c)
        /\ wpc[c] = "done" => c \notin subs

\* the status an action asks for
ExpectedStatus(action) == IF action = "approve" THEN "approved" ELSE "dismissed"

\* rank of a stored priority: critical, high, medium, low
Rank(priority) ==
    CASE priority = "critical" -> 0
      [] priority = "high" -> 1
      [] priority = "medium" -> 2
      [] OTHER -> 3

Statuses == {"pending", "approved", "dismissed", "expired"}

Quiet == \A p \in Actors : apc[p] \in {"idle", "done"}

\* C11 as claimed: a generation pass keeps every approved or dismissed element
\* of interventions:active, with its id and status.
C11_PassKeepsActioned ==
    [][passes' # passes =>
        \A k \in 1..Len(active) :
            active[k].status # "pending" =>
                \E j \in 1..Len(active') :
                    /\ active'[j].id = active[k].id
                    /\ active'[j].status = active[k].status]_vars

\* C12 as claimed: an action on an id present in the list writes status approved /
\* dismissed and actioned_at into that element only, pushes the same record on
\* history and returns it; every stored status is one of the four.
C12_ActionSetsStatus ==
    /\ [](/\ \A k \in 1..Len(active) : active[k].status \in Statuses
          /\ \A k \in 1..Len(history) : history[k].status \in Statuses)
    /\ [][\A p \in Actors :
            /\ (apc[p] = "lset" /\ apc'[p] = "lpush" /\ active[aIdx[p]].id = aCall[p].id) =>
                    /\ Len(active') = Len(active)
                    /\ \A j \in 1..Len(active) : j # aIdx[p] => active'[j] = active[j]
                    /\ active'[aIdx[p]].id = aCall[p].id
                    /\ active'[aIdx[p]].status = ExpectedStatus(aCall[p].action)
                    /\ active'[aIdx[p]].actioned_at # NoStamp
                    /\ active'[aIdx[p]] = aRec[p]
            /\ (apc[p] = "lpush" /\ apc'[p] = "ltrim") =>
                    /\ Head(history') = aRec[p]
                    /\ Head(history').status = ExpectedStatus(aCall[p].action)
                    /\ Tail(history') = history
            /\ (apc[p] = "ltrim" /\ apc'[p] = "done") =>
                    /\ aRet'[p] = [http |-> 200, kind |-> "data"]
                    /\ settled' = aRec[p]
                    /\ settled'.id = aCall[p].id
                    /\ settled'.status = ExpectedStatus(aCall[p].action)]_vars

\* C13 as claimed: when no action is in progress, the element of the active
\* list that was actioned last in history has the status of that newest entry.
C13_ConcurrentActionsSerial ==
    (Quiet /\ history # <<>>) =>
        \A k \in 1..Len(active) :
            active[k].id = Head(history).id => active[k].status = Head(history).status

\* C14 as claimed: an action(id, X) on an element that an earlier action(id, X)
\* already set to X, with no other action in progress, leaves the active list
\* as it was.
C14_SecondActionNoMutation ==
    [][\A p \in Actors :
        ( /\ apc[p] = "lset"
          /\ apc'[p] = "lpush"
          /\ \A q \in Actors \ {p} : apc[q] \in {"idle", "done"}
          /\ aCall[p].seen = ExpectedStatus(aCall[p].action)
          /\ active[aIdx[p]].id = aCall[p].id ) => active' = active]_vars

\* C15 as claimed: a history read made after an approve was returned, with no
\* other action step in between, has the returned record at its head, and that
\* record is the element stored under its id in the active list.
C15_HistoryHeadIsReturned ==
    (hres # <<>> /\ settled # NoRec /\ settled.status = "approved") =>
        /\ Head(hres) = settled
        /\ \E k \in 1..Len(active) : active[k].id = settled.id /\ active[k] = settled

\* C16 as claimed: in every reachable state the active list has at most 20
\* elements and their priorities are in non-decreasing order of rank.
C16_ActiveCappedAndRanked ==
    /\ Len(active) <= 20
    /\ \A k \in 1..(Len(active) - 1) :
            Rank(active[k].priority) <= Rank(active[k + 1].priority)

\* C17 as claimed: no two elements of the active list have the same type,
\* route_id and vehicle_id.
C17_ActiveDeduplicated ==
    \A j, k \in 1..Len(active) :
        j < k =>
            ~ /\ active[j].type = active[k].type
              /\ active[j].route_id = active[k].route_id
              /\ active[j].vehicle_id = active[k].vehicle_id

\* C18 as claimed: an action on an id that is not in the active list is
\* answered with HTTP 404 and leaves the active list and history unchanged.
C18_NotFoundIs404 ==
    /\ [](\A p \in Actors : aRet[p].kind = "not_found" => aRet[p].http = 404)
    /\ [][\A p \in Actors :
            (aRet'[p].kind = "not_found" /\ aRet[p] # aRet'[p]) =>
                (active' = active /\ history' = history)]_vars

C20_CachedReportServed ==
    /\ [](\A h1, h2 \in Callers :
            (hHit[h1] # 0 /\ hHit[h1] = hHit[h2]) => hRep[h1] = hRep[h2])
    /\ [][\A h \in Callers :
            /\ (hpc[h] \in {"idle", "done"} /\ <<hpc'[h], hRep'[h], hHit'[h]>> # <<hpc[h], hRep[h], hHit[h]>>) =>
                    IF health # NoCache
                    THEN /\ hpc'[h] = "done"
                         /\ hRep'[h] = healthSrc
                         /\ <<health', healthTtl', clock'>> = <<health, healthTtl, clock>>
                         /\ <<active', activeTtl', history'>> = <<active, activeTtl, history>>
                    ELSE hpc'[h] = "gather"
            /\ (hpc[h] = "set" /\ hpc'[h] = "done") =>
                    /\ healthSrc' = hRep[h]
                    /\ healthTtl' = 30
                    /\ <<active', activeTtl', history'>> = <<active, activeTtl, history>>]_vars
    /\ [][(passes' # passes \/ apc' # apc) => <<health', healthTtl'>> = <<health, healthTtl>>]_vars
    /\ [][elapsed' # elapsed =>
            \E secs \in {15, 1800} :
                /\ (health' = NoCache) <=> (health = NoCache \/ healthTtl <= secs)
                /\ (active' = <<>>) <=> (active = <<>> \/ activeTtl <= secs)
                /\ health' # NoCache => healthTtl' = healthTtl - secs
                /\ active' # <<>> => activeTtl' = activeTtl - secs]_vars

\* C20 witness: both callers were served the same stored report although the
\* number of pending interventions has changed since it was stored.
C20_Witness ==
    /\ hpc = [h \in Callers |-> "done"]
    /\ hHit["h1"] # 0
    /\ hHit["h1"] = hHit["h2"]
    /\ hRep["h1"] = healthSrc
    /\ hRep["h1"].interventions_pending # PendingCount(active)
    /\ health # NoCache


\* ---- the detectors and generators
\* the vehicles of a route in fleet order
OnRoute(vehicles, r) == SelectSeq(vehicles, LAMBDA v : v.route_id = r)

\* all pairs of a bunching report, in alert order
ReportedPairs(bunching) ==
    Flatten([k \in 1..Len(bunching.alerts) |-> bunching.alerts[k].bunched_pairs])

\* the severity the thresholds give a distance in centimetres
BandOf(cm) ==
    IF cm < 20000 THEN "severe" ELSE IF cm < 30000 THEN "moderate" ELSE "mild"

\* C24: for every route with a non-empty route_id, every unordered pair of its
\* vehicles at a distance below 400 m is reported exactly once, with vehicle_a
\* the vehicle of lower index in the route's list and the severity of its
\* band (severe < 200 m <= moderate < 300 m <= mild < 400 m); pairs at 400 m or
\* more, and vehicles without a route, are not reported.
C24_BunchedPairsExact ==
    (fnRet.done /\ "bunching" \in DOMAIN fnRet.value) =>
        LET pairs == ReportedPairs(fnRet.value.bunching)
            Times(a, b) ==
                Cardinality({k \in 1..Len(pairs) :
                                pairs[k].vehicle_a = a /\ pairs[k].vehicle_b = b})
        IN  /\ \A r \in BunchRoutes \ {""} :
                LET buses == OnRoute(fnArgs, r)
                IN  \A i \in 1..Len(buses), j \in 1..Len(buses) :
                        i < j =>
                            LET cm == Abs(buses[i].pos - buses[j].pos)
                            IN  /\ Times(buses[i].vehicle_id, buses[j].vehicle_id)
                                    = IF cm < 40000 THEN 1 ELSE 0
                                /\ Times(buses[j].vehicle_id, buses[i].vehicle_id) = 0
                                /\ \A k \in 1..Len(pairs) :
                                        (/\ pairs[k].vehicle_a = buses[i].vehicle_id
                                         /\ pairs[k].vehicle_b = buses[j].vehicle_id)
                                        => /\ pairs[k].severity = BandOf(cm)
                                           /\ pairs[k].route_id = r
            /\ \A k \in 1..Len(pairs) :
                    \E i \in 1..Len(fnArgs), j \in 1..Len(fnArgs) :
                        /\ i < j
                        /\ fnArgs[i].route_id = fnArgs[j].route_id
                        /\ fnArgs[i].route_id # ""
                        /\ fnArgs[i].vehicle_id = pairs[k].vehicle_a
                        /\ fnArgs[j].vehicle_id = pairs[k].vehicle_b

\* a route with three vehicles: one pair mild, one severe, one at 400 m left out
C24_Witness ==
    /\ fnRet.done
    /\ "bunching" \in DOMAIN fnRet.value
    /\ Len(fnArgs) = 3
    /\ \A k \in 1..3 : fnArgs[k].route_id = "R1"
    /\ Len(ReportedPairs(fnRet.value.bunching)) = 2
    /\ \E k \in 1..2 : ReportedPairs(fnRet.value.bunching)[k].severity = "mild"
    /\ \E k \in 1..2 : ReportedPairs(fnRet.value.bunching)[k].severity = "severe"

\* C26: one HOLD per bunched pair, on the pair's second vehicle, critical /
\* high / medium for severe / moderate / mild, with hold_seconds
\* min(180, max(30, 300 - max(30, floor(distance_m / 5.5)))), which lies in
\* 30..180 and is 180 for distance_m = 200 (distance_m in tenths of a metre).
C26_HoldPerPair ==
    (fnRet.done /\ "holds" \in DOMAIN fnRet.value) =>
        LET pairs == ReportedPairs(fnRet.value.bunching)
            holds == fnRet.value.holds
        IN  /\ Len(holds) = Len(pairs)
            /\ \A k \in 1..Len(pairs) :
                /\ holds[k].type = "HOLD"
                /\ holds[k].vehicle_id = pairs[k].vehicle_b
                /\ holds[k].route_id = pairs[k].route_id
                /\ holds[k].priority =
                        (CASE pairs[k].severity = "severe" -> "CRITICAL"
                           [] pairs[k].severity = "moderate" -> "HIGH"
                           [] pairs[k].severity = "mild" -> "MEDIUM")
                /\ holds[k].hold_seconds =
                        Min(180, Max(30, 300 - Max(30, pairs[k].distance_m \div 55)))
                /\ holds[k].hold_seconds \in 30..180
                /\ pairs[k].distance_m = 2000 => holds[k].hold_seconds = 180

\* holds of all three priorities, one of them for a pair 200.0 m apart
C26_Witness ==
    /\ fnRet.done
    /\ "holds" \in DOMAIN fnRet.value
    /\ \A pr \in {"CRITICAL", "HIGH", "MEDIUM"} :
            \E k \in 1..Len(fnRet.value.holds) : fnRet.value.holds[k].priority = pr
    /\ \E k \in 1..Len(fnRet.value.holds) :
            /\ ReportedPairs(fnRet.value.bunching)[k].distance_m = 2000
            /\ fnRet.value.holds[k].hold_seconds = 180

\* C21: the health score is an integer in 0..100; the grade is A from 90, B
\* from 75, C from 60, D from 40 and F below; and the four weighted values
\* (tenths) add up to the score within the rounding to a whole number.
C21_ScoreGradeAndSum ==
    fnRet.done /\ "weighted" \in DOMAIN fnRet.value =>
        LET score == fnRet.value.score
            weighted == fnRet.value.weighted
            raw_score == weighted[1] + weighted[2] + weighted[3] + weighted[4]
        IN  /\ score \in 0..100
            /\ fnRet.value.grade =
                    (IF score >= 90 THEN "A" ELSE IF score >= 75 THEN "B"
                     ELSE IF score >= 60 THEN "C" ELSE IF score >= 40 THEN "D" ELSE "F")
            /\ fnRet.value.status =
                    (IF score >= 90 THEN "excellent" ELSE IF score >= 75 THEN "good"
                     ELSE IF score >= 60 THEN "fair" ELSE IF score >= 40 THEN "poor"
                     ELSE "crisis")
            /\ Abs(10 * score - raw_score) <= 5

\* a score between 75 and 79, graded B, that the rounding moved off the sum
C21_Witness ==
    /\ fnRet.done
    /\ "weighted" \in DOMAIN fnRet.value
    /\ fnRet.value.score \in 75..79
    /\ fnRet.value.grade = "B"
    /\ fnRet.value.weighted[1] + fnRet.value.weighted[2] + fnRet.value.weighted[3]
            + fnRet.value.weighted[4] # 10 * fnRet.value.score
    /\ fnArgs.crowd.reports_last_hour > 0
    /\ Len(fnArgs.delays) > 0

\* the vehicles of a ghost detection call all have a timestamp that parses
TimestampsValid == \A k \in 1..Len(fnArgs.vehicles) : fnArgs.vehicles[k].age # BadTimestamp

\* C22: exactly one signal-lost record for every vehicle whose age is greater
\* than 120 s, none for a vehicle with age <= 120 s, and total_live_vehicles +
\* total_ghost_vehicles is the number of vehicles in the snapshot.
C22_SignalLostExact ==
    (fnRet.done /\ "ghost_buses" \in DOMAIN fnRet.value /\ TimestampsValid) =>
        LET ghosts == fnRet.value.ghost_buses
        IN  /\ \A k \in 1..Len(fnArgs.vehicles) :
                    Cardinality({g \in 1..Len(ghosts) :
                                    ghosts[g].vehicle_id = fnArgs.vehicles[k].vehicle_id})
                        = IF fnArgs.vehicles[k].age > 120 * 10 THEN 1 ELSE 0
            /\ fnRet.value.total_live_vehicles + fnRet.value.total_ghost_vehicles
                    = Len(fnArgs.vehicles)

\* C23: ghost_routes are exactly the catalog route ids without a vehicle of
\* age <= 120 s and non-empty route_id, in lexical order, and
\* total_routes_with_buses counts the distinct non-empty route ids of the
\* vehicles with age <= 120 s.
C23_GhostRoutesExact ==
    (fnRet.done /\ "ghost_routes" \in DOMAIN fnRet.value /\ TimestampsValid) =>
        LET live == {fnArgs.vehicles[k].route_id : k \in {j \in 1..Len(fnArgs.vehicles) :
                        /\ fnArgs.vehicles[j].age <= 120 * 10
                        /\ fnArgs.vehicles[j].route_id # ""}}
            routes == fnRet.value.ghost_routes
        IN  /\ {routes[k] : k \in 1..Len(routes)} = fnArgs.route_ids \ live
            /\ Len(routes) = Cardinality(fnArgs.route_ids \ live)
            /\ \A i \in 1..Len(routes), j \in 1..Len(routes) :
                    i < j => RouteRank(routes[i]) < RouteRank(routes[j])
            /\ fnRet.value.total_routes_with_buses = Cardinality(live)

\* ---- the crowd store
\* the reports of the given submissions that satisfy Keep, newest first
NewestFirst(sent, Keep(_)) ==
    LET kept == SelectSeq(sent, Keep)
    IN  [k \in 1..Len(kept) |-> kept[Len(kept) + 1 - k]]

\* C28: after any sequence of submissions, crowd:reports holds at most 500
\* entries and each crowd:route list at most 100, both newest first with the
\* latest submitted report at the head; crowd:vehicle holds the latest report
\* of its vehicle; crowd:total_count is the number of submissions.
C28_CrowdStoreAfterSubmissions ==
    /\ Len(crowdReports) <= 500
    /\ crowdReports = SubSeq(NewestFirst(submitted, LAMBDA s : TRUE), 1, Len(crowdReports))
    /\ Len(crowdReports) = IF Len(submitted) <= 500 THEN Len(submitted) ELSE 500
    /\ \A r \in CrowdRoutes :
        LET of_route == NewestFirst(submitted, LAMBDA s : s.route_id = r)
        IN  /\ Len(crowdRoute[r]) <= 100
            /\ crowdRoute[r] = SubSeq(of_route, 1, Len(crowdRoute[r]))
            /\ Len(crowdRoute[r]) = IF Len(of_route) <= 100 THEN Len(of_route) ELSE 100
    /\ \A v \in CrowdVehicles :
        LET of_vehicle == NewestFirst(submitted, LAMBDA s : s.vehicle_id = v)
        IN  of_vehicle # <<>> => crowdVehicle[v] = of_vehicle[1]
    /\ crowdTotal = Len(submitted)

\* both lists at their caps after submissions that dropped the oldest reports,
\* the two submitters' pipelines having run in the reverse order of the calls
C28_Witness ==
    /\ Len(submitted) = 502
    /\ Len(crowdReports) = 500
    /\ Len(crowdRoute["R1"]) = 100
    /\ crowdRoute["R2"] # <<>>
    /\ crowdReports[1].reported_at < crowdReports[2].reported_at
    /\ crowdTotal = 502

\* ---- the SURGE generator
\* the SURGE of a list for a route summary is the one the counts call for
SurgeMatches(intv, summary) ==
    /\ intv.type = "SURGE"
    /\ intv.route_id = summary.route_id
    /\ intv.priority = (IF summary.full >= 3 THEN "CRITICAL" ELSE "HIGH")
    /\ intv.passengers_affected = ((summary.full + summary.standing) * 75 * 9) \div 10

\* the list holds exactly one SURGE for each summary with full >= 2 or full +
\* standing >= 3, the one the counts call for, and no other SURGE
SurgesExact(list, summaries) ==
    /\ \A s \in 1..Len(summaries) :
        LET of_route == {k \in 1..Len(list) :
                            list[k].type = "SURGE" /\ list[k].route_id = summaries[s].route_id}
            over == summaries[s].full >= 2 \/ summaries[s].full + summaries[s].standing >= 3
        IN  /\ Cardinality(of_route) = IF over THEN 1 ELSE 0
            /\ \A k \in of_route : SurgeMatches(list[k], summaries[s])
    /\ \A k \in 1..Len(list) :
            list[k].type = "SURGE" =>
                \E s \in 1..Len(summaries) : summaries[s].route_id = list[k].route_id

LargestDelay(tu) ==
    LET ds == {0} \cup {Abs(tu.stus[k].arrival) :
                            k \in {j \in 1..Len(tu.stus) : tu.stus[j].arrival # NoField}}
                  \cup {Abs(tu.stus[k].departure) :
                            k \in {j \in 1..Len(tu.stus) : tu.stus[j].departure # NoField}}
    IN  CHOOSE d \in ds : \A e \in ds : e <= d

\* the entities of the TripUpdates feed of the call that carry the trip_id
TripEntities(trip_id) == {k \in 1..Len(fnArgs.tu) : fnArgs.tu[k].trip_id = trip_id}

HasTrip(rec) == rec.trip_id # NoTrip /\ rec.trip_id # ""

\* C27 as claimed: delay_seconds >= 0; it is the largest |delay| over all
\* stop_time_update entries of the TripUpdate with the vehicle's trip_id when
\* that is positive, and 0 without a trip_id, without such a TripUpdate, or
\* when the largest is 0.
C27_DelayIsLargestOfTrip ==
    (fnRet.done /\ "vehicles" \in DOMAIN fnRet.value) =>
        \A k \in 1..Len(fnRet.value.vehicles) :
            LET rec == fnRet.value.vehicles[k]
                of_trip == TripEntities(rec.trip_id)
                largest == IF HasTrip(rec) /\ of_trip # {}
                           THEN CHOOSE d \in {LargestDelay(fnArgs.tu[e]) : e \in of_trip} :
                                    \A e \in of_trip : LargestDelay(fnArgs.tu[e]) <= d
                           ELSE 0
            IN  /\ rec.delay_seconds >= 0
                /\ rec.delay_seconds = largest

\* C27 amended: as claimed when one TripUpdate carries the trip_id; of several
\* the last in the feed whose largest |delay| is positive counts.
C27_DelayIsLastPositiveOfTrip ==
    (fnRet.done /\ "vehicles" \in DOMAIN fnRet.value) =>
        \A k \in 1..Len(fnRet.value.vehicles) :
            LET rec == fnRet.value.vehicles[k]
                positive == {e \in TripEntities(rec.trip_id) : LargestDelay(fnArgs.tu[e]) > 0}
                last == CHOOSE e \in positive : \A f \in positive : f <= e
            IN  /\ rec.delay_seconds >= 0
                /\ rec.delay_seconds =
                        IF HasTrip(rec) /\ positive # {}
                        THEN LargestDelay(fnArgs.tu[last]) ELSE 0
                /\ Cardinality(TripEntities(rec.trip_id)) = 1 /\ HasTrip(rec)
                        => \A e \in TripEntities(rec.trip_id) :
                                rec.delay_seconds = LargestDelay(fnArgs.tu[e])

\* a vehicle on T1 with delay 90 from one TripUpdate, beside a vehicle without
\* trip whose delay is 0
C27_Witness ==
    /\ fnRet.done
    /\ "vehicles" \in DOMAIN fnRet.value
    /\ Len(fnArgs.tu) = 2
    /\ Cardinality(TripEntities("T1")) = 1
    /\ \E k \in 1..Len(fnRet.value.vehicles) :
            /\ fnRet.value.vehicles[k].trip_id = "T1"
            /\ fnRet.value.vehicles[k].delay_seconds = 90
    /\ \E k \in 1..Len(fnRet.value.vehicles) :
            /\ fnRet.value.vehicles[k].trip_id = NoTrip
            /\ fnRet.value.vehicles[k].delay_seconds = 0

\* ---- the background loops
\* C30: without an API key no poll tick raises, none issues an HTTP request,
\* none writes to or publishes on the store, and the loop goes on at its base
\* interval: the backoff never grows.
C30_NoKeyTicksAreSkipped ==
    ~apiKey =>
        /\ pc \in {"idle", "sleeping", "cancelled"}
        /\ resp = NoResp
        /\ pending = NoMsg
        /\ store = EmptyStore
        /\ chan = <<>>
        /\ nwrites = 0
        /\ fails = 0
        /\ backoff = (IF loop = "_poll_loop" THEN 15 ELSE 10)

\* a skipped tick of either loop, the loop asleep for its base interval
C30_Witness ==
    /\ ~apiKey
    /\ pc = "sleeping"
    /\ backoff = Base

\* C29: every cycle of the stats loop that finds a non-empty fleet appends
\* exactly one line, so that between cycles the file has as many lines as
\* there were such cycles.
C29_OneLinePerCycle ==
    statsPc = "sleeping" => statsLines = statsCycles

\* ---- empty input
\* the three detectors have returned
DetectorsReturned == fnRet.done /\ DOMAIN fnRet.value = {"ghosts", "bunching", "crowding"}

\* nothing to read: the fleet is empty and no crowd report was ever submitted
NothingToRead ==
    /\ fnArgs.vehicles = <<>>
    /\ fnArgs.crowd.list = <<>>
    /\ fnArgs.crowd.total = 0

BunchingZero(b) ==
    /\ b.alerts = <<>>
    /\ b.total_pairs = 0
    /\ b.routes_affected = 0
    /\ b.total_live_vehicles = 0

CrowdingZero(c) ==
    /\ c.route_summaries = <<>>
    /\ c.reports_last_hour = 0
    /\ c.total_reports = 0

\* C31 as stated: with an empty fleet and no crowd reports, for every catalog,
\* the three detectors return and every list of their reports is empty and
\* every total is 0
C31_EmptyInputZeroReports ==
    (DetectorsReturned /\ NothingToRead) =>
        /\ fnRet.value.ghosts.ghost_buses = <<>>
        /\ fnRet.value.ghosts.ghost_routes = <<>>
        /\ fnRet.value.ghosts.total_live_vehicles = 0
        /\ fnRet.value.ghosts.total_ghost_vehicles = 0
        /\ fnRet.value.ghosts.total_routes_with_buses = 0
        /\ fnRet.value.ghosts.total_routes_without_buses = 0
        /\ BunchingZero(fnRet.value.bunching)
        /\ CrowdingZero(fnRet.value.crowding)

\* C31 (amended): with an empty fleet and no crowd report ever submitted, the
\* three detectors return; the bunching and crowding reports are zero-valued;
\* the ghost report has no ghost bus and zero vehicle totals and no route with
\* buses, but lists every catalog route, in sorted order, as a ghost route and
\* counts them in total_routes_without_buses
C31_EmptyInputReports ==
    /\ (fnRet.done /\ NothingToRead) =>
        LET g == fnRet.value.ghosts
        IN  /\ g.ghost_buses = <<>>
            /\ g.total_live_vehicles = 0
            /\ g.total_ghost_vehicles = 0
            /\ g.total_routes_with_buses = 0
            /\ g.total_routes_without_buses = Cardinality(fnArgs.route_ids)
            /\ Len(g.ghost_routes) = Cardinality(fnArgs.route_ids)
            /\ {g.ghost_routes[k] : k \in 1..Len(g.ghost_routes)} = fnArgs.route_ids
            /\ \A j, k \in 1..Len(g.ghost_routes) :
                    j < k => RouteRank(g.ghost_routes[j]) < RouteRank(g.ghost_routes[k])
    /\ (DetectorsReturned /\ NothingToRead) =>
        /\ BunchingZero(fnRet.value.bunching)
        /\ CrowdingZero(fnRet.value.crowding)

C31_Witness ==
    /\ DetectorsReturned
    /\ NothingToRead
    /\ fnArgs.route_ids = {"R2", "R3"}
    /\ fnRet.value.ghosts.ghost_routes = <<"R2", "R3">>
    /\ fnRet.value.bunching.alerts = <<>>

\* ---- the live channel
\* the snapshots forwarded so far to a client whose handler is in
\* _stream_via_pubsub: all it was sent but the initial snapshot
InPubsub(c) == wpc[c] \in {"streaming", "unsubscribing"}
Forwarded(c) == IF got[c] = <<>> THEN <<>> ELSE Tail(got[c])

Increasing(s) == \A j, k \in 1..Len(s) : j < k => s[j] < s[k]
AllAtMost(s, t) == \A k \in 1..Len(s) : s[k] <= t

\* C32: a snapshot is published only after the tick's pipeline was executed, so
\* the store's fleet:ts is the timestamp of every snapshot published, queued
\* for or forwarded to a subscriber, or that of a later poll; and each
\* subscriber is forwarded the snapshots in poll order
C32_PublishedAfterExecute ==
    /\ pending # NoMsg => (pc = "executed" /\ store.ts = pending.timestamp)
    /\ AllAtMost(chan, store.ts)
    /\ Increasing(chan)
    /\ \A c \in Clients :
        /\ AllAtMost(inbox[c], store.ts)
        /\ InPubsub(c) =>
            /\ AllAtMost(Forwarded(c), store.ts)
            /\ Increasing(Forwarded(c) \o inbox[c])

C32_Witness ==
    \E c \in Clients :
        /\ InPubsub(c)
        /\ Len(Forwarded(c)) >= 2
        /\ store.ts > Forwarded(c)[1]

\* ---- ranking and the cap
\* the interventions of the pass that returned, in generation order
Generated == fnRet.value.holds \o fnRet.value.deploys \o fnRet.value.surges

\* how many interventions of the pass come before the i-th generated one in
\* the ranking: those of higher priority, and those of equal priority
\* generated earlier
AheadOf(i) ==
    Cardinality({j \in 1..Len(Generated) :
                    \/ Rank(EnumValue(Generated[j].priority))
                            < Rank(EnumValue(Generated[i].priority))
                    \/ /\ j < i
                       /\ Generated[j].priority = Generated[i].priority})

\* C33: the list a pass stores has min(20, n) elements; the i-th generated
\* intervention (HOLDs, then DEPLOYs, then SURGEs) is stored at place
\* AheadOf(i) + 1 when fewer than 20 are ahead of it, and is left out otherwise
C33_StoredIsRankedPrefix ==
    (fnRet.done /\ "active" \in DOMAIN fnRet.value) =>
        /\ Len(active) = Min(20, Len(Generated))
        /\ \A i \in 1..Len(Generated) :
            IF AheadOf(i) < 20
            THEN LET s == active[AheadOf(i) + 1]
                 IN  /\ s.id = passes * IdStride + i
                     /\ s.type = Generated[i].type
                     /\ s.priority = EnumValue(Generated[i].priority)
                     /\ s.route_id = Generated[i].route_id
                     /\ s.vehicle_id = Generated[i].vehicle_id
            ELSE \A k \in 1..Len(active) : active[k].id # passes * IdStride + i

\* a pass with more than 20 interventions in which a SURGE, generated last,
\* is stored ahead of a HOLD, and a HOLD is left out while a DEPLOY generated
\* after it is stored
C33_Witness ==
    /\ fnRet.done
    /\ "active" \in DOMAIN fnRet.value
    /\ Len(Generated) > 20
    /\ \E j, k \in 1..Len(active) :
            j < k /\ active[j].type = "SURGE" /\ active[k].type = "HOLD"
    /\ \E i, j \in 1..Len(Generated) :
            /\ i < j
            /\ Generated[i].type = "HOLD" /\ AheadOf(i) >= 20
            /\ Generated[j].type = "DEPLOY" /\ AheadOf(j) < 20

\* ---- the DEPLOY generator
\* the deploys of one priority among those returned, in order
DeploysOf(priority) == SelectSeq(fnRet.value.deploys, LAMBDA d : d.priority = priority)

\* the signal-lost buses of the report with stale_seconds > 300
LongSilent ==
    {k \in 1..Len(fnArgs.ghost_buses) : fnArgs.ghost_buses[k].stale_seconds > 300}

\* one high DEPLOY for each of the first 10 ghost routes, in their order
RouteDeploysExact ==
    /\ Len(DeploysOf("HIGH")) = Min(10, Len(fnArgs.ghost_routes))
    /\ \A k \in 1..Len(DeploysOf("HIGH")) :
        /\ DeploysOf("HIGH")[k].type = "DEPLOY"
        /\ DeploysOf("HIGH")[k].route_id = fnArgs.ghost_routes[k]
        /\ DeploysOf("HIGH")[k].vehicle_id = NoVehicle

\* C34 as claimed: a pass produces one high DEPLOY for each of the first 10
\* ghost routes; the backup DEPLOYs are medium, at most 5, one per vehicle and
\* only for vehicles with stale_seconds > 300; and whenever at most 5
\* signal-lost vehicles have stale_seconds > 300, each of them gets one
C34_DeployPerGhost ==
    (fnRet.done /\ DOMAIN fnRet.value = {"deploys"}) =>
        /\ RouteDeploysExact
        /\ Len(DeploysOf("HIGH")) + Len(DeploysOf("MEDIUM")) = Len(fnRet.value.deploys)
        /\ Len(DeploysOf("MEDIUM")) <= 5
        /\ \A j \in 1..Len(DeploysOf("MEDIUM")) :
                \E k \in LongSilent :
                    DeploysOf("MEDIUM")[j].vehicle_id = fnArgs.ghost_buses[k].vehicle_id
        /\ Cardinality(LongSilent) <= 5 =>
                \A k \in LongSilent :
                    Cardinality({j \in 1..Len(DeploysOf("MEDIUM")) :
                                    DeploysOf("MEDIUM")[j].vehicle_id
                                        = fnArgs.ghost_buses[k].vehicle_id}) = 1

\* ---- the polling fallback
Last(s) == s[Len(s)]

\* C35 as claimed: a snapshot sent by _stream_via_polling carries a fleet:ts
\* that is set and differs from the timestamp of the last snapshot sent to
\* that client, the initial snapshot included
C35_PollingSendsOnlyChanges ==
    [][\A c \in Clients :
        (wpc[c] = "poll_send" /\ got'[c] # got[c]) =>
            /\ Last(got'[c]) # NoTs
            /\ got[c] # <<>> => Last(got'[c]) # Last(got[c])]_vars

\* ---- actions against a concurrent pass
\* C36 as claimed: the lset of an action request lands inside the list and on
\* the element whose id is the requested one, whatever a generation pass did
\* to interventions:active since the request read it
C36_LsetHitsRequestedId ==
    [][\A p \in Actors :
        (apc[p] = "lset" /\ apc'[p] # "lset") =>
            /\ aIdx[p] <= Len(active)
            /\ active[aIdx[p]].id = aCall[p].id
            /\ \A k \in 1..Len(active) : k # aIdx[p] => active'[k] = active[k]]_vars

\* ---- snapshots sent to clients
\* C37 as claimed: the vehicle list of every snapshot sent to a client was read
\* from the keys of the poll whose timestamp the snapshot carries
C37_SnapshotFromOnePoll ==
    \A c \in Clients :
        /\ Len(gotVeh[c]) = Len(got[c])
        /\ \A k \in 1..Len(got[c]) :
            /\ gotVeh[c][k].ids = got[c][k]
            /\ gotVeh[c][k].hashes = got[c][k]

\* ---- a tick without vehicles
\* a step in which poll() returns or raises without having written
TickEndsUnwritten == pc = "fetching" /\ pc' = "sleeping"

\* C38: a tick whose VehiclePositions fetch succeeded writes (and later
\* publishes) only a non-empty vehicle list; when it ends without a write the
\* store with fleet, fleet:ts, hashes and TTLs is as before, nothing is
\* published or queued, and the loop's backoff is the base interval again.  So
\* the fleet of the last non-empty poll stays, also when its hashes are gone.
C38_EmptyTickLeavesStore ==
    [][/\ (pc = "fetching" /\ pc' = "executed") => pending'.vehicles # <<>>
       /\ (TickEndsUnwritten /\ ~VpRaises(resp'.vp)) =>
            /\ store' = store
            /\ chan' = chan
            /\ pending' = NoMsg
            /\ inbox' = inbox
            /\ nwrites' = nwrites
            /\ backoff' = Base
            /\ fails' = 0]_vars

\* after a tick without vehicles the backoff is at base while fleet still
\* names V1, whose hash has expired
C38_Witness ==
    /\ pc = "sleeping"
    /\ resp.vp = 200
    /\ backoff = Base
    /\ nwrites >= 1
    /\ store.fleet = {"V1"}
    /\ store.hashes["V1"] = NoHash
    /\ "V1" \in lapsed

\* ---- the hold time
\* gap_seconds = max(30, int(pair.distance_m / 5.5)), distance_m in tenths of a metre
GapSeconds(distance_m) == Max(30, distance_m \div 55)

\* the i-th HOLD is 180 s long, for a pair whose reported distance is at most
\* `most` tenths of a metre (or below it, when strict)
HoldIs180(k, most, strict) ==
    LET d == ReportedPairs(fnRet.value.bunching)[k].distance_m
    IN  /\ IF strict THEN d < most ELSE d <= most
        /\ GapSeconds(d) <= 72
        /\ 300 - GapSeconds(d) >= 228
        /\ fnRet.value.holds[k].hold_seconds = 180
        /\ fnRet.value.holds[k].wait_time_impact_seconds = -180

\* C39 as claimed: every HOLD has hold_seconds = 180 and
\* wait_time_impact_seconds = -180, every bunched pair having distance_m < 400
C39_HoldAlways180 ==
    (fnRet.done /\ "holds" \in DOMAIN fnRet.value) =>
        \A k \in 1..Len(fnRet.value.holds) : HoldIs180(k, 4000, TRUE)

\* C39 (amended): every HOLD has hold_seconds = 180 and
\* wait_time_impact_seconds = -180; the reported distance_m of a bunched pair
\* is at most 400.0 (a distance below 400 m may round up to it), the gap is at
\* most 72 s and the unclamped hold time at least 228 s
C39_HoldAlways180Rounded ==
    (fnRet.done /\ "holds" \in DOMAIN fnRet.value) =>
        /\ Len(fnRet.value.holds) = Len(ReportedPairs(fnRet.value.bunching))
        /\ \A k \in 1..Len(fnRet.value.holds) : HoldIs180(k, 4000, FALSE)

\* a HOLD of 180 s for a pair 399.96 m apart, reported as 400.0 m
C39_Witness ==
    /\ fnRet.done
    /\ "holds" \in DOMAIN fnRet.value
    /\ \E k \in 1..Len(fnRet.value.holds) :
            /\ ReportedPairs(fnRet.value.bunching)[k].distance_m = 4000
            /\ GapSeconds(4000) = 72
            /\ fnRet.value.holds[k].hold_seconds = 180
            /\ fnRet.value.holds[k].wait_time_impact_seconds = -180

\* ---- shutdown
\* C40 as claimed: once the lifespan handler has ended after the shutdown,
\* whatever the awaited ingestion task raised, the state-store connection and
\* the database are closed
C40_ShutdownClosesConnections ==
    lpc \in {"done", "raised"} => (redisClosed /\ dbClosed)

====
